---- MODULE Spec2Model ----
(***************************************************************************)
(* The audit-logged mutation pipeline of the chiropractor directory: the   *)
(* Express middleware (verifyToken, isAdmin, the express-validator chains, *)
(* handleValidationErrors) and the route handlers over the PostgreSQL      *)
(* tables users, chiropractors, blog_posts, site_settings and audit_log.   *)
(*                                                                         *)
(* Every db.query of a handler is one atomic step (a single autocommitted  *)
(* statement), so requests interleave exactly at their awaits.  The code   *)
(* between two awaits reads no shared state but the clock; it runs with    *)
(* the statement whose result it handles.                                  *)
(* Strings are sequences of one-character strings.                         *)
(***************************************************************************)
EXTENDS Integers, Sequences, FiniteSets, TLC

VARIABLES
    users,          \* table users: id -> row
    chiropractors,  \* table chiropractors: id -> row
    blog_posts,     \* table blog_posts: id -> row
    site_settings,  \* table site_settings: setting_key -> row
    audit_log,      \* table audit_log, in insertion order
    serial,         \* the SERIAL sequences of the tables
    now,            \* the wall clock (Date.now(), jwt's clock)
    req,            \* the requests in flight, one per connection slot
    started,        \* the number of requests received so far
    tally           \* the responses sent so far, counted by kind

vars == <<users, chiropractors, blog_posts, site_settings, audit_log, serial, now, req,
          started, tally>>

db == <<users, chiropractors, blog_posts, site_settings, audit_log, serial>>

(***************************************************************************)
(* Bounds of the model.                                                    *)
(***************************************************************************)
NumSlots == 2
MaxRequests == 2
MaxClock == 1

Slots == 1..NumSlots

None == <<>>
Some(x) == <<x>>
IsSome(o) == Len(o) > 0
Get(o) == o[1]

(***************************************************************************)
(* Strings.                                                                *)
(***************************************************************************)
UpperSeq == <<"A","B","C","D","E","F","G","H","I","J","K","L","M",
              "N","O","P","Q","R","S","T","U","V","W","X","Y","Z">>
LowerSeq == <<"a","b","c","d","e","f","g","h","i","j","k","l","m",
              "n","o","p","q","r","s","t","u","v","w","x","y","z">>
DigitSeq == <<"0","1","2","3","4","5","6","7","8","9">>

Range(f) == {f[i] : i \in DOMAIN f}

ToLowerChar(c) ==
    IF \E i \in DOMAIN UpperSeq : UpperSeq[i] = c
    THEN LowerSeq[CHOOSE i \in DOMAIN UpperSeq : UpperSeq[i] = c]
    ELSE c

toLowerCase(s) == [i \in DOMAIN s |-> ToLowerChar(s[i])]

IsSlugChar(c) == c \in Range(LowerSeq) \cup Range(DigitSeq)

IsSpace(c) == c \in {" ", "\t", "\n"}

RECURSIVE TrimLeft(_)
TrimLeft(s) == IF s # <<>> /\ IsSpace(Head(s)) THEN TrimLeft(Tail(s)) ELSE s

RECURSIVE TrimRight(_)
TrimRight(s) ==
    IF s # <<>> /\ IsSpace(s[Len(s)]) THEN TrimRight(SubSeq(s, 1, Len(s) - 1)) ELSE s

trim(s) == TrimRight(TrimLeft(s))

(***************************************************************************)
(* createSlug: /[^a-z0-9]+/g -> '-', then /^-+|-+$/g -> ''.                *)
(***************************************************************************)
\* A replace without the +: every character outside [a-z0-9] becomes a hyphen.
ReplaceEach(s, inRun) ==
    [i \in DOMAIN s |-> IF s[i] \in Range(LowerSeq) \cup Range(DigitSeq)
                        THEN s[i] ELSE "-"]

RECURSIVE ReplaceRuns(_, _)
ReplaceRuns(s, inRun) ==
    IF s = <<>> THEN <<>>
    ELSE IF IsSlugChar(Head(s)) THEN <<Head(s)>> \o ReplaceRuns(Tail(s), FALSE)
    ELSE IF inRun THEN ReplaceRuns(Tail(s), TRUE)
    ELSE <<"-">> \o ReplaceRuns(Tail(s), TRUE)

RECURSIVE StripLeadingHyphens(_)
StripLeadingHyphens(s) ==
    IF s # <<>> /\ Head(s) = "-" THEN StripLeadingHyphens(Tail(s)) ELSE s

RECURSIVE StripTrailingHyphens(_)
StripTrailingHyphens(s) ==
    IF s # <<>> /\ s[Len(s)] = "-"
    THEN StripTrailingHyphens(SubSeq(s, 1, Len(s) - 1)) ELSE s

baseSlug(title) ==
    StripTrailingHyphens(StripLeadingHyphens(ReplaceRuns(toLowerCase(title), FALSE)))

createSlug(title, id) ==
    IF id # <<>> THEN baseSlug(title) \o <<"-">> \o id ELSE baseSlug(title)

(***************************************************************************)
(* Number.prototype.toString(36)                                           *)
(***************************************************************************)
Base36Digits == DigitSeq \o LowerSeq

RECURSIVE toString36(_)
toString36(n) ==
    IF n < 36 THEN <<Base36Digits[n + 1]>>
    ELSE toString36(n \div 36) \o <<Base36Digits[(n % 36) + 1]>>

(***************************************************************************)
(* sanitizeInput: xss(value.trim()).  The xss filter, with its default    *)
(* options, removes the HTML comments and then escapes the angle brackets  *)
(* of every tag that is not on its whitelist and of every stray bracket in *)
(* text; the strings of this model hold no whitelisted tag.                *)
(***************************************************************************)
\* s.indexOf(pat, from), positions counted from 1; 0 when pat does not occur
IndexFrom(s, pat, from) ==
    LET hits == {i \in from..(Len(s) - Len(pat) + 1) :
                    SubSeq(s, i, i + Len(pat) - 1) = pat}
    IN  IF hits = {} THEN 0 ELSE CHOOSE i \in hits : \A j \in hits : i <= j

CommentOpen == <<"<", "!", "-", "-">>
CommentClose == <<"-", "-", ">">>

\* allowCommentTag is false by default: each <!-- up to the next --> is taken
\* out before the tags are parsed, and an unclosed <!-- with all that follows.
RECURSIVE stripCommentTag(_)
stripCommentTag(s) ==
    LET i == IndexFrom(s, CommentOpen, 1)
        j == IndexFrom(s, CommentClose, i)
    IN  IF i = 0 THEN s
        ELSE IF j = 0 THEN SubSeq(s, 1, i - 1)
        ELSE SubSeq(s, 1, i - 1) \o stripCommentTag(SubSeq(s, j + 3, Len(s)))

RECURSIVE escapeHtml(_)
escapeHtml(s) ==
    IF s = <<>> THEN <<>>
    ELSE IF Head(s) = "<" THEN <<"&", "l", "t", ";">> \o escapeHtml(Tail(s))
    ELSE IF Head(s) = ">" THEN <<"&", "g", "t", ";">> \o escapeHtml(Tail(s))
    ELSE <<Head(s)>> \o escapeHtml(Tail(s))

sanitizeInput(value) == escapeHtml(stripCommentTag(trim(value)))

\* The values of a field: a string, or a number, a boolean, an array, each
\* with its content written out.
Str(chars) == [type |-> "string", value |-> chars]
NonString(type, value) == [type |-> type, value |-> value]

\* sanitizeInput as .customSanitizer applies it to a value of any type
customSanitizer(v) ==
    IF v.type = "string" THEN Str(sanitizeInput(v.value)) ELSE v

(***************************************************************************)
(* Credentials.  A JWT is its verified payload: the subject, the expiry    *)
(* instant and whether its signature checks against JWT_SECRET.            *)
(***************************************************************************)
Token(userId, exp, sig) == [userId |-> userId, exp |-> exp, sig |-> sig]

Bearer(tok) == Some([scheme |-> "Bearer", token |-> tok])
Basic(tok) == Some([scheme |-> "Basic", token |-> tok])

FarFuture == MaxClock + 1

(***************************************************************************)
(* Responses: the status and the error (or message) string of the body.    *)
(***************************************************************************)
NoResp == [status |-> 0, error |-> "", details |-> <<>>]
Reply(status, text) == [status |-> status, error |-> text, details |-> <<>>]

Idle ==
    [route |-> "idle", pc |-> "idle", header |-> None, cookie |-> None,
     id |-> 0, key |-> <<>>, body |-> [none |-> TRUE],
     user |-> None, current |-> None, result |-> None, slug |-> <<>>,
     errors |-> <<>>, sanitized |-> {}, stages |-> <<>>, resp |-> NoResp,
     i |-> 1, collided |-> FALSE,
     writes |-> 0, audits |-> 0, failed |-> "", sawActive |-> None,
     checkedAt |-> None, payload |-> [none |-> TRUE], handled |-> FALSE,
     read |-> {}, settingsRead |-> {}]

(***************************************************************************)
(* The middleware and statements of each route, in the order Express runs  *)
(* them.                                                                   *)
(***************************************************************************)
Chain(route) ==
    CASE route = "POST /chiropractors" ->
            <<"verifyToken", "isAdmin", "validate", "chiroInsert", "chiroCreateAudit">>
      [] route = "PUT /chiropractors/:id" ->
            <<"verifyToken", "isAdmin", "validate", "chiroUpdateSelect",
              "chiroUpdate", "chiroUpdateAudit">>
      [] route = "DELETE /chiropractors/:id" ->
            <<"verifyToken", "isAdmin", "validate", "chiroDeleteSelect",
              "chiroSoftDelete", "chiroDeleteAudit">>
      [] route = "POST /admin/chiropractors/:id/restore" ->
            <<"verifyToken", "isAdmin", "chiroRestore", "chiroRestoreAudit">>
      [] route = "DELETE /admin/chiropractors/:id/permanent" ->
            <<"verifyToken", "isAdmin", "chiroPermanentSelect",
              "chiroPermanentDelete", "chiroPermanentAudit">>
      [] route = "POST /blog" ->
            <<"verifyToken", "isAdmin", "validate", "postCreateSlug", "postInsert",
              "postCreateAudit">>
      [] route = "PUT /blog/:id" ->
            <<"verifyToken", "isAdmin", "validate", "postUpdateSelect",
              "postUpdateSlug", "postUpdate", "postUpdateAudit">>
      [] route = "DELETE /blog/:id" ->
            <<"verifyToken", "isAdmin", "validate", "postDeleteSelect", "postDelete",
              "postDeleteAudit">>
      [] route = "POST /admin/blog-posts/:id/toggle-publish" ->
            <<"verifyToken", "isAdmin", "togglePublishSelect", "togglePublishUpdate",
              "togglePublishAudit">>
      [] route = "GET /blog/slug/:slug" ->
            <<"postViewSelect", "postViewIncrement">>
      [] route = "PUT /settings/:key" ->
            <<"verifyToken", "isAdmin", "settingPutSelect", "settingPutUpdate",
              "settingPutAudit">>
      [] route = "POST /settings/bulk" ->
            <<"verifyToken", "isAdmin", "bulkBegin", "bulkUpdate", "bulkAudit">>
      [] route = "POST /settings" ->
            <<"verifyToken", "isAdmin", "validate", "settingCreateSelect",
              "settingInsert", "settingCreateAudit">>
      [] route = "DELETE /settings/:key" ->
            <<"verifyToken", "isAdmin", "settingDeleteSelect", "settingDelete",
              "settingDeleteAudit">>
      [] route = "POST /admin/users" ->
            <<"verifyToken", "isAdmin", "validate", "userCreateSelect", "userInsert",
              "userCreateAudit">>
      [] route = "POST /admin/users/:id/toggle-active" ->
            <<"verifyToken", "isAdmin", "toggleActiveSelect", "toggleActiveUpdate",
              "toggleActiveAudit">>
      [] route = "POST /auth/login" ->
            <<"validate", "loginSelect", "loginAudit">>
      [] route = "POST /auth/logout" ->
            <<"verifyToken", "logoutAudit">>
      [] route = "POST /auth/change-password" ->
            <<"verifyToken", "validate", "passwordSelect", "passwordUpdate",
              "passwordAudit">>
      [] route = "GET /auth/verify" ->
            <<"verifyToken", "verifyHandler">>
      [] route = "optionalAuth" ->
            <<"optionalAuth", "optionalHandler">>
      [] route = "GET /chiropractors" ->
            <<"validate", "chiroListCount", "chiroListSelect">>
      [] route = "GET /chiropractors/state/:state" -> <<"chiroByState">>
      [] route = "GET /chiropractors/states" -> <<"chiroStates">>
      [] route = "GET /chiropractors/:id" -> <<"validate", "chiroById">>
      [] route = "GET /chiropractors/:id/related" ->
            <<"validate", "relatedState", "relatedSelect">>
      [] route = "GET /seo/chiropractor/:id" -> <<"seoChiro", "seoSettings">>
      [] route = "GET /seo/sitemap-data" ->
            <<"sitemapStates", "sitemapPosts", "sitemapChiros">>
      [] route = "GET /sitemap.xml" -> <<"xmlStates", "xmlPosts", "xmlChiros">>
      [] route = "GET /settings" -> <<"settingsPublic">>
      [] route = "GET /settings/all" -> <<"verifyToken", "isAdmin", "settingsAll">>
      [] route = "GET /seo/page/:page" -> <<"seoPage">>
      [] route = "GET /seo/blog/:slug" -> <<"seoPost", "seoPostSettings">>
      [] route = "GET /admin/audit-log" ->
            <<"verifyToken", "isAdmin", "auditLogCount", "auditLogSelect">>
      [] route = "GET /admin/chiropractors" ->
            <<"verifyToken", "isAdmin", "adminListCount", "adminListSelect">>
      [] OTHER -> <<>>

IndexOf(seq, x) == CHOOSE i \in DOMAIN seq : seq[i] = x

\* The steps that are middleware; every other step belongs to the route's handler.
MiddlewareSteps == {"verifyToken", "isAdmin", "validate", "optionalAuth"}

\* next() enters the handler when the step it reaches is none of the middleware.
Entered(step) == step \notin MiddlewareSteps /\ step # "done"

\* The step after the current one: next() in a middleware, the next await in a handler.
Succ(rq) ==
    LET c == Chain(rq.route)
        i == IndexOf(c, rq.pc)
    IN  IF i = Len(c) THEN "done" ELSE c[i + 1]

Merge(fields, rq) == fields @@ rq

\* The routes whose handler ends with an INSERT INTO audit_log.
AuditSteps ==
    {"chiroCreateAudit", "chiroUpdateAudit", "chiroDeleteAudit", "chiroRestoreAudit",
     "chiroPermanentAudit", "postCreateAudit", "postUpdateAudit", "postDeleteAudit",
     "togglePublishAudit", "settingPutAudit", "bulkAudit", "settingCreateAudit",
     "settingDeleteAudit", "userCreateAudit", "toggleActiveAudit", "loginAudit",
     "logoutAudit", "passwordAudit"}

AuditedRoute(route) == \E i \in DOMAIN Chain(route) : Chain(route)[i] \in AuditSteps

Success(resp) == resp.status >= 200 /\ resp.status < 300

\* The responses sent: succeeded counts the 2xx answers of the routes that log,
\* mutated the 2xx answers of requests that changed a row of an entity table.
Tallied(t, before, after) ==
    IF before.pc # "done" /\ after.pc = "done" /\ Success(after.resp)
    THEN [t EXCEPT
            !.succeeded = @ + (IF AuditedRoute(after.route) THEN 1 ELSE 0),
            !.mutated   = @ + (IF after.writes > 0 THEN 1 ELSE 0)]
    ELSE t

\* The listings soft-deleted and neither updated nor removed since, each as the
\* row was just before its latest soft delete.
Remembered(r) ==
    LET rq   == req[r]
        kept == tally.deleted
    IN  IF rq.pc = "chiroSoftDelete" /\ rq.id \in DOMAIN chiropractors
        THEN (rq.id :> chiropractors[rq.id]) @@ kept
        ELSE IF rq.pc \in {"chiroUpdate", "chiroPermanentDelete"}
        THEN [id \in DOMAIN kept \ {rq.id} |-> kept[id]]
        ELSE kept

Tally(r) ==
    tally' = [Tallied(tally, req[r], req'[r]) EXCEPT !.deleted = Remembered(r)]

Finish(rq, resp) == Merge([pc |-> "done", resp |-> resp], rq)

Staged(rq, stage) == Append(rq.stages, stage)

NewRequest(route, header, cookie, id, key, body) ==
    Merge([route |-> route, pc |-> Chain(route)[1], header |-> header,
           cookie |-> cookie, id |-> id, key |-> key, body |-> body,
           payload |-> body, handled |-> Entered(Chain(route)[1])], Idle)

Free(r) == req[r].pc \in {"idle", "done"}

\* A request arrives and is served on the first free connection slot.
Receive(r, rq) ==
    /\ Free(r)
    /\ \A q \in Slots : q < r => ~Free(q)
    /\ started < MaxRequests
    /\ req' = [req EXCEPT ![r] = rq]
    /\ started' = started + 1
    /\ UNCHANGED <<db, now, tally>>

Tick ==
    /\ now < MaxClock
    /\ now' = now + 1
    /\ UNCHANGED <<db, req, started, tally>>

(***************************************************************************)
(* middleware/auth                                                         *)
(***************************************************************************)
\* The token taken from the cookie whenever the request has one.
ExtractTokenCookieFirst(rq) ==
    IF IsSome(rq.cookie) THEN rq.cookie
    ELSE IF IsSome(rq.header) /\ Get(rq.header).scheme = "Bearer"
    THEN Some(Get(rq.header).token)
    ELSE None

ExtractToken(rq) ==
    IF IsSome(rq.header) /\ Get(rq.header).scheme = "Bearer"
    THEN Some(Get(rq.header).token)
    ELSE rq.cookie

\* jwt.verify: the signature is checked before the expiry.
JwtVerify(tok) ==
    IF ~tok.sig THEN "JsonWebTokenError"
    ELSE IF now >= tok.exp THEN "TokenExpiredError"
    ELSE "ok"

UserColumns(row) == [id |-> row.id, email |-> row.email, role |-> row.role,
                     is_active |-> row.is_active]

UserView(id) == UserColumns(users[id])

\* verifyToken whose catch answers every error of jwt.verify alike.
VerifyTokenOutcomeOneError(rq) ==
    LET token == ExtractToken(rq) IN
    IF ~IsSome(token)
    THEN [next |-> FALSE, resp |-> Reply(401, "Access denied. No token provided."), user |-> None]
    ELSE IF JwtVerify(Get(token)) # "ok"
    THEN [next |-> FALSE, resp |-> Reply(401, "Invalid token."), user |-> None]
    ELSE IF Get(token).userId \notin DOMAIN users
    THEN [next |-> FALSE, resp |-> Reply(401, "User not found."), user |-> None]
    ELSE IF ~users[Get(token).userId].is_active
    THEN [next |-> FALSE, resp |-> Reply(401, "Account is deactivated."), user |-> None]
    ELSE [next |-> TRUE, resp |-> NoResp, user |-> Some(UserView(Get(token).userId))]

\* verifyToken that calls next() when the request carries no token.
VerifyTokenOutcomePassesNoToken(rq) ==
    LET token == ExtractToken(rq) IN
    IF ~IsSome(token)
    THEN [next |-> TRUE, resp |-> NoResp, user |-> None]
    ELSE IF JwtVerify(Get(token)) = "JsonWebTokenError"
    THEN [next |-> FALSE, resp |-> Reply(401, "Invalid token."), user |-> None]
    ELSE IF JwtVerify(Get(token)) = "TokenExpiredError"
    THEN [next |-> FALSE, resp |-> Reply(401, "Token expired."), user |-> None]
    ELSE IF Get(token).userId \notin DOMAIN users
    THEN [next |-> FALSE, resp |-> Reply(401, "User not found."), user |-> None]
    ELSE IF ~users[Get(token).userId].is_active
    THEN [next |-> FALSE, resp |-> Reply(401, "Account is deactivated."), user |-> None]
    ELSE [next |-> TRUE, resp |-> NoResp, user |-> Some(UserView(Get(token).userId))]

\* What verifyToken does with the request: the response it sends, or the
\* identity it attaches before calling next().
VerifyTokenOutcome(rq) ==
    LET token == ExtractToken(rq) IN
    IF ~IsSome(token)
    THEN [next |-> FALSE, resp |-> Reply(401, "Access denied. No token provided."), user |-> None]
    ELSE IF JwtVerify(Get(token)) = "JsonWebTokenError"
    THEN [next |-> FALSE, resp |-> Reply(401, "Invalid token."), user |-> None]
    ELSE IF JwtVerify(Get(token)) = "TokenExpiredError"
    THEN [next |-> FALSE, resp |-> Reply(401, "Token expired."), user |-> None]
    ELSE IF Get(token).userId \notin DOMAIN users
    THEN [next |-> FALSE, resp |-> Reply(401, "User not found."), user |-> None]
    ELSE IF ~users[Get(token).userId].is_active
    THEN [next |-> FALSE, resp |-> Reply(401, "Account is deactivated."), user |-> None]
    ELSE [next |-> TRUE, resp |-> NoResp, user |-> Some(UserView(Get(token).userId))]

\* The active flag of the credential's subject as the users table holds it
\* when the credential is checked; with checkedAt, the clock at that moment, it
\* is a record of the run which the code does not read.
SubjectActive(rq) ==
    LET token == ExtractToken(rq) IN
    IF IsSome(token) /\ Get(token).userId \in DOMAIN users
    THEN Some(users[Get(token).userId].is_active)
    ELSE None

VerifyToken(r) ==
    LET rq == req[r]
        out == VerifyTokenOutcome(rq)
    IN  /\ rq.pc = "verifyToken"
        /\ req' = [req EXCEPT ![r] =
                IF out.next
                THEN Merge([pc |-> Succ(rq), handled |-> Entered(Succ(rq)),
                            user |-> out.user,
                            stages |-> Staged(rq, "Authenticated"),
                            sawActive |-> SubjectActive(rq),
                            checkedAt |-> Some(now)], rq)
                ELSE Merge([sawActive |-> SubjectActive(rq), checkedAt |-> Some(now)],
                           Finish(rq, out.resp))]
        /\ UNCHANGED <<db, now, started>> /\ Tally(r)

\* isAdmin that only asks for an identity.
IsAdminAnyUser(rq) == IsSome(rq.user)

IsAdminOutcome(rq) == IsSome(rq.user) /\ Get(rq.user).role = "admin"

IsAdmin(r) ==
    LET rq == req[r] IN
    /\ rq.pc = "isAdmin"
    /\ req' = [req EXCEPT ![r] =
            IF IsAdminOutcome(rq)
            THEN Merge([pc |-> Succ(rq), handled |-> Entered(Succ(rq)),
                        stages |-> Staged(rq, "Authorized")], rq)
            ELSE Finish(rq, Reply(403, "Access denied. Admin privileges required."))]
    /\ UNCHANGED <<db, now, started>> /\ Tally(r)


(***************************************************************************)
(* middleware/validate.  A chain runs every item in order: a sanitizer     *)
(* rewrites the field in req.body, a validator that fails records its      *)
(* message and the chain goes on (no chain calls bail()).  Of a listing the*)
(* model keeps name, state, phone and is_featured: address, specialty and  *)
(* description are validated like state, email and website like phone.     *)
(***************************************************************************)
NameMinLen == 2
NameMaxLen == 255
StateMaxLen == 100
PhoneMaxLen == 50

Violation(field, message) == [field |-> field, message |-> message]

When(cond, violation) == IF cond THEN <<violation>> ELSE <<>>

\* /^[\d\s\-\(\)\+\.]+$/
IsPhoneChar(c) == c \in Range(DigitSeq) \cup {" ", "\t", "\n", "-", "(", ")", "+", "."}
MatchesPhone(s) == s # <<>> /\ \A i \in DOMAIN s : IsPhoneChar(s[i])

\* body('name').trim().notEmpty().isLength({min: 2, max: 255}).customSanitizer(sanitizeInput)
NameChain(v) ==
    LET t == trim(v) IN
    [value |-> sanitizeInput(t),
     errors |-> When(t = <<>>, Violation("name", "Name is required"))
            \o When(Len(t) < NameMinLen \/ Len(t) > NameMaxLen,
                    Violation("name", "Name must be between 2 and 255 characters")),
     sanitized |-> {"name"}]

\* body('state').trim().notEmpty().isLength({max: 100}).customSanitizer(sanitizeInput)
StateChain(v) ==
    LET t == trim(v) IN
    [value |-> sanitizeInput(t),
     errors |-> When(t = <<>>, Violation("state", "State is required"))
            \o When(Len(t) > StateMaxLen,
                    Violation("state", "State must be less than 100 characters")),
     sanitized |-> {"state"}]

\* The phone chain without its matches(...).
PhoneChainNoPattern(v) ==
    LET t == trim(v) IN
    [value |-> t,
     errors |-> When(t = <<>>, Violation("phone", "Phone is required"))
            \o When(Len(t) > PhoneMaxLen,
                    Violation("phone", "Phone must be less than 50 characters")),
     sanitized |-> {}]

\* The phone chain with .bail() after each validator: the first failure only.
PhoneChainBail(v) ==
    LET t == trim(v) IN
    [value |-> t,
     errors |-> IF t = <<>> THEN <<Violation("phone", "Phone is required")>>
                ELSE IF ~MatchesPhone(t)
                THEN <<Violation("phone", "Invalid phone number format")>>
                ELSE When(Len(t) > PhoneMaxLen,
                          Violation("phone", "Phone must be less than 50 characters")),
     sanitized |-> {}]

\* body('phone').trim().notEmpty().matches(...).isLength({max: 50})
PhoneChain(v) ==
    LET t == trim(v) IN
    [value |-> t,
     errors |-> When(t = <<>>, Violation("phone", "Phone is required"))
            \o When(~MatchesPhone(t), Violation("phone", "Invalid phone number format"))
            \o When(Len(t) > PhoneMaxLen,
                    Violation("phone", "Phone must be less than 50 characters")),
     sanitized |-> {}]

\* param('id').isInt({min: 1})
idValidation(id) == When(id < 1, Violation("id", "Invalid ID"))

chiropractorValidation(body) ==
    LET n == NameChain(body.name)
        s == StateChain(body.state)
        p == PhoneChain(body.phone)
    IN  [body |-> [name |-> n.value, state |-> s.value, phone |-> p.value,
                   is_featured |-> body.is_featured],
         errors |-> n.errors \o s.errors \o p.errors,
         sanitized |-> n.sanitized \cup s.sanitized \cup p.sanitized]

\* body('title').trim().notEmpty().isLength({min: 5, max: 500}).customSanitizer(sanitizeInput)
TitleMinLen == 5
TitleMaxLen == 500

TitleChain(v) ==
    LET t == trim(v) IN
    [value |-> sanitizeInput(t),
     errors |-> When(t = <<>>, Violation("title", "Title is required"))
            \o When(Len(t) < TitleMinLen \/ Len(t) > TitleMaxLen,
                    Violation("title", "Title must be between 5 and 500 characters")),
     sanitized |-> {"title"}]

\* Of a post the model keeps title and is_published; content, author, excerpt,
\* tags and the meta fields are validated like title and stored as given.
blogPostValidation(body) ==
    LET t == TitleChain(body.title) IN
    [body |-> [title |-> t.value, is_published |-> body.is_published],
     errors |-> t.errors,
     sanitized |-> t.sanitized]

\* /^[a-z_]+$/
MatchesSettingKey(s) == s # <<>> /\ \A i \in DOMAIN s : s[i] \in Range(LowerSeq) \cup {"_"}

SettingKeyMaxLen == 255

\* body('setting_key').trim().notEmpty().isLength({max: 255}).matches(/^[a-z_]+$/),
\* body('setting_value').optional().customSanitizer(sanitizeInput)
settingsValidation(body) ==
    LET k == trim(body.setting_key) IN
    [body |-> [setting_key |-> k, setting_value |-> sanitizeInput(body.setting_value)],
     errors |-> When(k = <<>>, Violation("setting_key", "Setting key is required"))
            \o When(Len(k) > SettingKeyMaxLen,
                    Violation("setting_key", "Setting key must be less than 255 characters"))
            \o When(~MatchesSettingKey(k),
                    Violation("setting_key",
                              "Setting key must be lowercase letters and underscores only")),
     sanitized |-> {"setting_value"}]

\* isEmail, as far as the addresses of the model go: one @ between two non-empty parts
IsEmail(s) ==
    /\ Cardinality({i \in DOMAIN s : s[i] = "@"}) = 1
    /\ s[1] # "@" /\ s[Len(s)] # "@"
    /\ \A i \in DOMAIN s : ~IsSpace(s[i])

\* normalizeEmail lower-cases the address; it leaves a value that is no address alone
normalizeEmail(s) == IF IsEmail(s) THEN toLowerCase(s) ELSE s

PasswordMinLen == 8

\* /^(?=.*[a-z])(?=.*[A-Z])(?=.*\d)/
HasLowerUpperDigit(s) ==
    /\ \E i \in DOMAIN s : s[i] \in Range(LowerSeq)
    /\ \E i \in DOMAIN s : s[i] \in Range(UpperSeq)
    /\ \E i \in DOMAIN s : s[i] \in Range(DigitSeq)

\* body('email').trim().notEmpty().isEmail().normalizeEmail(), body('password').notEmpty()
loginValidation(body) ==
    LET e == trim(body.email) IN
    [body |-> [email |-> normalizeEmail(e), password |-> body.password],
     errors |-> When(e = <<>>, Violation("email", "Email is required"))
            \o When(~IsEmail(e), Violation("email", "Invalid email address"))
            \o When(body.password = <<>>, Violation("password", "Password is required")),
     sanitized |-> {}]

passwordValidation(body) ==
    [body |-> body,
     errors |-> When(body.currentPassword = <<>>,
                     Violation("currentPassword", "Current password is required"))
            \o When(body.newPassword = <<>>,
                    Violation("newPassword", "New password is required"))
            \o When(Len(body.newPassword) < PasswordMinLen,
                    Violation("newPassword", "Password must be at least 8 characters"))
            \o When(~HasLowerUpperDigit(body.newPassword),
                    Violation("newPassword",
                              "Password must contain uppercase, lowercase, and number")),
     sanitized |-> {}]

\* body('email').isEmail().normalizeEmail(), body('password').isLength({min: 8});
\* the name of an account is not modelled
userValidation(body) ==
    [body |-> [email |-> normalizeEmail(body.email), password |-> body.password],
     errors |-> When(~IsEmail(body.email), Violation("email", "Invalid value"))
            \o When(Len(body.password) < PasswordMinLen,
                    Violation("password", "Invalid value")),
     sanitized |-> {}]

NoChain(body) == [body |-> body, errors |-> <<>>, sanitized |-> {}]

\* The validation middleware of a route, run in the order of its declaration.
RunValidation(rq) ==
    LET ids == IF rq.route \in {"PUT /chiropractors/:id", "DELETE /chiropractors/:id",
                                "PUT /blog/:id", "DELETE /blog/:id",
                                "GET /chiropractors/:id",
                                "GET /chiropractors/:id/related"}
               THEN idValidation(rq.id) ELSE <<>>
        b   == IF rq.route \in {"POST /chiropractors", "PUT /chiropractors/:id"}
               THEN chiropractorValidation(rq.body)
               ELSE IF rq.route \in {"POST /blog", "PUT /blog/:id"}
               THEN blogPostValidation(rq.body)
               ELSE IF rq.route = "POST /settings" THEN settingsValidation(rq.body)
               ELSE IF rq.route = "POST /auth/login" THEN loginValidation(rq.body)
               ELSE IF rq.route = "POST /auth/change-password"
               THEN passwordValidation(rq.body)
               ELSE IF rq.route = "POST /admin/users" THEN userValidation(rq.body)
               ELSE NoChain(rq.body)
    IN  [body |-> b.body, errors |-> ids \o b.errors, sanitized |-> b.sanitized]

\* handleValidationErrors that calls next() whatever the chains recorded.
handleValidationErrorsNoReturn(rq, errors) ==
    Merge([pc |-> Succ(rq), handled |-> Entered(Succ(rq)),
           stages |-> Staged(rq, "Validated")], rq)

\* handleValidationErrors: errors.isEmpty() or 400 with every recorded error.
handleValidationErrors(rq, errors) ==
    IF errors # <<>>
    THEN Finish(rq, [status |-> 400, error |-> "Validation failed", details |-> errors])
    ELSE Merge([pc |-> Succ(rq), handled |-> Entered(Succ(rq)),
                stages |-> Staged(rq, "Validated")], rq)

Validate(r) ==
    LET rq == req[r]
        v  == RunValidation(rq)
    IN  /\ rq.pc = "validate"
        /\ req' = [req EXCEPT ![r] =
                handleValidationErrors(
                    Merge([body |-> v.body, errors |-> v.errors,
                           sanitized |-> v.sanitized,
                           stages |-> IF v.sanitized # {} THEN Staged(rq, "Sanitized")
                                      ELSE rq.stages], rq),
                    v.errors)]
        /\ UNCHANGED <<db, now, started>> /\ Tally(r)

(***************************************************************************)
(* The audit recorder: INSERT INTO audit_log.  The statement runs on its   *)
(* own, after the entity statement has committed; when it throws, the      *)
(* handler's catch answers 500.                                            *)
(***************************************************************************)
AuditEntry(user_id, action, entity_type, entity_id, old_values, new_values) ==
    [user_id |-> user_id, action |-> action, entity_type |-> entity_type,
     entity_id |-> entity_id, old_values |-> old_values, new_values |-> new_values]

\* The handler without its INSERT INTO audit_log.
NotLogged(log, entry) == log

\* A log that keeps its newest entry only.
LoggedLatestOnly(log, entry) == <<entry>>

Logged(log, entry) == Append(log, entry)

AuditInsert(r, entry, okResp, failText) ==
    LET rq == req[r] IN
    \E ok \in BOOLEAN :
        /\ audit_log' = IF ok THEN Logged(audit_log, entry) ELSE audit_log
        /\ req' = [req EXCEPT ![r] =
                IF ok
                THEN Merge([audits |-> rq.audits + (Len(audit_log') - Len(audit_log)),
                            stages |-> Staged(rq, "Audited")], Finish(rq, okResp))
                ELSE Merge([failed |-> "audit"], Finish(rq, Reply(500, failText)))]
        /\ UNCHANGED <<users, chiropractors, blog_posts, site_settings, serial, now, started>> /\ Tally(r)

\* A request after an entity statement that changed n rows.
Wrote(rq, n) ==
    Merge([writes |-> rq.writes + n,
           stages |-> IF n > 0 THEN Staged(rq, "Persisted") ELSE rq.stages], rq)

Restrict(f, S) == [x \in S |-> f[x]]

(***************************************************************************)
(* routes/chiropractors: create, update, soft delete                       *)
(***************************************************************************)
ChiroRow(id, body, active) ==
    [id |-> id, name |-> body.name, state |-> body.state, phone |-> body.phone,
     is_featured |-> body.is_featured, is_active |-> active, updated_at |-> now]

ChiroInsert(r) ==
    LET rq  == req[r]
        id  == serial.chiropractors
        row == ChiroRow(id, rq.body, TRUE)
    IN  /\ rq.pc = "chiroInsert"
        /\ chiropractors' = (id :> row) @@ chiropractors
        /\ serial' = [serial EXCEPT !.chiropractors = @ + 1]
        /\ req' = [req EXCEPT ![r] =
                Merge([pc |-> Succ(rq), result |-> Some(row)], Wrote(rq, 1))]
        /\ UNCHANGED <<users, blog_posts, site_settings, audit_log, now, started>> /\ Tally(r)

ChiroCreateAudit(r) ==
    LET rq == req[r] IN
    /\ rq.pc = "chiroCreateAudit"
    /\ AuditInsert(r,
            AuditEntry(Get(rq.user).id, "create", "chiropractor",
                       Some(Get(rq.result).id), None, rq.result),
            Reply(201, "Chiropractor created successfully"),
            "Failed to create chiropractor")

\* SELECT * FROM chiropractors WHERE id = $1, 404 when there is no row
ChiroSelect(r, step) ==
    LET rq == req[r] IN
    /\ rq.pc = step
    /\ req' = [req EXCEPT ![r] =
            IF rq.id \in DOMAIN chiropractors
            THEN Merge([pc |-> Succ(rq), current |-> Some(chiropractors[rq.id])], rq)
            ELSE Finish(rq, Reply(404, "Chiropractor not found"))]
    /\ UNCHANGED <<db, now, started>> /\ Tally(r)

ChiroUpdateSelect(r) == ChiroSelect(r, "chiroUpdateSelect")

ChiroUpdate(r) ==
    LET rq    == req[r]
        found == rq.id \in DOMAIN chiropractors
        row   == ChiroRow(rq.id, rq.body, chiropractors[rq.id].is_active)
    IN  /\ rq.pc = "chiroUpdate"
        /\ chiropractors' = IF found THEN [chiropractors EXCEPT ![rq.id] = row]
                            ELSE chiropractors
        /\ req' = [req EXCEPT ![r] =
                IF found
                THEN Merge([pc |-> Succ(rq), result |-> Some(row)], Wrote(rq, 1))
                ELSE Finish(rq, Reply(404, "Chiropractor not found"))]
        /\ UNCHANGED <<users, blog_posts, site_settings, audit_log, serial, now, started>> /\ Tally(r)

ChiroUpdateAudit(r) ==
    LET rq == req[r] IN
    /\ rq.pc = "chiroUpdateAudit"
    /\ AuditInsert(r,
            AuditEntry(Get(rq.user).id, "update", "chiropractor",
                       Some(rq.id), rq.current, rq.result),
            Reply(200, "Chiropractor updated successfully"),
            "Failed to update chiropractor")

ChiroDeleteSelect(r) == ChiroSelect(r, "chiroDeleteSelect")

\* UPDATE chiropractors SET is_active = false WHERE id = $1 RETURNING id
SoftDeleted(row) == [row EXCEPT !.is_active = FALSE, !.updated_at = now]

ChiroSoftDelete(r) ==
    LET rq    == req[r]
        found == rq.id \in DOMAIN chiropractors
    IN  /\ rq.pc = "chiroSoftDelete"
        /\ chiropractors' = IF found
                            THEN [chiropractors EXCEPT ![rq.id] = SoftDeleted(@)]
                            ELSE chiropractors
        /\ req' = [req EXCEPT ![r] =
                Merge([pc |-> Succ(rq)], Wrote(rq, IF found THEN 1 ELSE 0))]
        /\ UNCHANGED <<users, blog_posts, site_settings, audit_log, serial, now, started>> /\ Tally(r)

ChiroDeleteAudit(r) ==
    LET rq == req[r] IN
    /\ rq.pc = "chiroDeleteAudit"
    /\ AuditInsert(r,
            AuditEntry(Get(rq.user).id, "delete", "chiropractor",
                       Some(rq.id), rq.current, None),
            Reply(200, "Chiropractor deleted successfully"),
            "Failed to delete chiropractor")

(***************************************************************************)
(* routes/admin: restore and permanent delete of a listing                 *)
(***************************************************************************)
\* A restore that also takes the listing off the featured ones.
RestoredUnfeatured(row) ==
    [row EXCEPT !.is_active = TRUE, !.updated_at = now, !.is_featured = FALSE]

Restored(row) == [row EXCEPT !.is_active = TRUE, !.updated_at = now]

ChiroRestore(r) ==
    LET rq    == req[r]
        found == rq.id \in DOMAIN chiropractors
    IN  /\ rq.pc = "chiroRestore"
        /\ chiropractors' = IF found
                            THEN [chiropractors EXCEPT ![rq.id] = Restored(@)]
                            ELSE chiropractors
        /\ req' = [req EXCEPT ![r] =
                IF found
                THEN Merge([pc |-> Succ(rq), result |-> Some(chiropractors'[rq.id])],
                           Wrote(rq, 1))
                ELSE Finish(rq, Reply(404, "Chiropractor not found"))]
        /\ UNCHANGED <<users, blog_posts, site_settings, audit_log, serial, now, started>> /\ Tally(r)

ChiroRestoreAudit(r) ==
    LET rq == req[r] IN
    /\ rq.pc = "chiroRestoreAudit"
    /\ AuditInsert(r,
            AuditEntry(Get(rq.user).id, "restore", "chiropractor",
                       Some(rq.id), None, None),
            Reply(200, "Chiropractor restored successfully"),
            "Failed to restore chiropractor")

ChiroPermanentSelect(r) == ChiroSelect(r, "chiroPermanentSelect")

ChiroPermanentDelete(r) ==
    LET rq    == req[r]
        found == rq.id \in DOMAIN chiropractors
    IN  /\ rq.pc = "chiroPermanentDelete"
        /\ chiropractors' = Restrict(chiropractors, DOMAIN chiropractors \ {rq.id})
        /\ req' = [req EXCEPT ![r] =
                Merge([pc |-> Succ(rq)], Wrote(rq, IF found THEN 1 ELSE 0))]
        /\ UNCHANGED <<users, blog_posts, site_settings, audit_log, serial, now, started>> /\ Tally(r)

\* The permanent delete logged without old_values.
ChiroPermanentAuditNoSnapshot(r) ==
    LET rq == req[r] IN
    /\ rq.pc = "chiroPermanentAudit"
    /\ AuditInsert(r,
            AuditEntry(Get(rq.user).id, "permanent_delete", "chiropractor",
                       Some(rq.id), None, None),
            Reply(200, "Chiropractor permanently deleted"),
            "Failed to delete chiropractor")

ChiroPermanentAudit(r) ==
    LET rq == req[r] IN
    /\ rq.pc = "chiroPermanentAudit"
    /\ AuditInsert(r,
            AuditEntry(Get(rq.user).id, "permanent_delete", "chiropractor",
                       Some(rq.id), rq.current, None),
            Reply(200, "Chiropractor permanently deleted"),
            "Failed to delete chiropractor")


(***************************************************************************)
(* The reads of the directory.  A request's read holds the rows of         *)
(* chiropractors its statements matched, as they were in the table when    *)
(* the statement ran; its result holds what the response carries.  The     *)
(* requests carry no page and no limit: the defaults (page 1, limit 50 or  *)
(* 6) exceed the rows there are.  The state of a list request is its key,  *)
(* <<>> when the query string has none.                                    *)
(***************************************************************************)
Listings == {chiropractors[id] : id \in DOMAIN chiropractors}

\* A WHERE clause without is_active = true.
IsActiveOmitted(row) == TRUE

\* WHERE ... is_active = true
IsActive(row) == row.is_active

\* SELECT id, name, state, address, phone, email, website, specialty, is_featured
ChiroColumns(row) ==
    [id |-> row.id, name |-> row.name, state |-> row.state, phone |-> row.phone,
     is_featured |-> row.is_featured]

Matched(rq, rows) == rq.read \cup rows

Ok == Reply(200, "")

ReadOnly(r) == UNCHANGED <<db, now, started>> /\ Tally(r)

\* GET /api/chiropractors: the count, then the page.
ChiroList(r) ==
    LET rq   == req[r]
        rows == {row \in Listings :
                    IsActive(row) /\ (rq.key # <<>> => row.state = rq.key)}
    IN  /\ rq.pc \in {"chiroListCount", "chiroListSelect"}
        /\ req' = [req EXCEPT ![r] =
                IF rq.pc = "chiroListCount"
                THEN Merge([pc |-> Succ(rq), read |-> Matched(rq, rows),
                            result |-> Some([total |-> Cardinality(rows)])], rq)
                ELSE Finish(Merge([read |-> Matched(rq, rows),
                                   result |-> Some([total |-> Get(rq.result).total,
                                                    chiropractors |->
                                                        {ChiroColumns(row) : row \in rows}])],
                                  rq), Ok)]
        /\ ReadOnly(r)

\* GET /api/chiropractors/state/:state
ChiroByState(r) ==
    LET rq   == req[r]
        rows == {row \in Listings : row.state = rq.key /\ IsActive(row)}
    IN  /\ rq.pc = "chiroByState"
        /\ req' = [req EXCEPT ![r] =
                Finish(Merge([read |-> Matched(rq, rows),
                              result |-> Some([chiropractors |->
                                                {ChiroColumns(row) : row \in rows}])],
                             rq), Ok)]
        /\ ReadOnly(r)

\* GET /api/chiropractors/states: SELECT state, COUNT(*) ... GROUP BY state
ChiroStates(r) ==
    LET rq   == req[r]
        rows == {row \in Listings : IsActive(row)}
    IN  /\ rq.pc = "chiroStates"
        /\ req' = [req EXCEPT ![r] =
                Finish(Merge([read |-> Matched(rq, rows),
                              result |-> Some([states |->
                                    {[state |-> st,
                                      count |-> Cardinality({row \in rows : row.state = st})] :
                                        st \in {row.state : row \in rows}}])],
                             rq), Ok)]
        /\ ReadOnly(r)

\* GET /api/chiropractors/:id
ChiroById(r) ==
    LET rq   == req[r]
        rows == {row \in Listings : row.id = rq.id /\ IsActive(row)}
    IN  /\ rq.pc = "chiroById"
        /\ req' = [req EXCEPT ![r] =
                IF rows = {}
                THEN Finish(rq, Reply(404, "Chiropractor not found"))
                ELSE Finish(Merge([read |-> Matched(rq, rows),
                                   result |-> Some([chiropractor |->
                                        ChiroColumns(CHOOSE row \in rows : TRUE)])],
                                  rq), Ok)]
        /\ ReadOnly(r)

\* GET /api/chiropractors/:id/related: the state of the listing, then the others
\* of that state.
ChiroRelated(r) ==
    LET rq    == req[r]
        own   == {row \in Listings : row.id = rq.id /\ IsActive(row)}
        rows  == {row \in Listings :
                    /\ row.state = Get(rq.current).state
                    /\ row.id # rq.id
                    /\ IsActive(row)}
    IN  /\ rq.pc \in {"relatedState", "relatedSelect"}
        /\ req' = [req EXCEPT ![r] =
                IF rq.pc = "relatedState"
                THEN IF own = {}
                     THEN Finish(rq, Reply(404, "Chiropractor not found"))
                     ELSE Merge([pc |-> Succ(rq), read |-> Matched(rq, own),
                                 current |-> Some([state |->
                                        (CHOOSE row \in own : TRUE).state])], rq)
                ELSE Finish(Merge([read |-> Matched(rq, rows),
                                   result |-> Some([related |->
                                        {ChiroColumns(row) : row \in rows}])],
                                  rq), Ok)]
        /\ ReadOnly(r)

site_url == <<"s","i","t","e","_","u","r","l">>
site_description == <<"s","i","t","e","_","d","e","s","c","r","i","p","t","i","o","n">>
site_keywords == <<"s","i","t","e","_","k","e","y","w","o","r","d","s">>

\* SELECT setting_key, setting_value FROM site_settings WHERE setting_key IN (...)
SettingsIn(keys) ==
    {[setting_key |-> site_settings[k].setting_key,
      setting_value |-> site_settings[k].setting_value] :
        k \in DOMAIN site_settings \cap keys}

\* settings[row.setting_key] = row.setting_value, then settings.key
ValueOf(rows, key) ==
    IF \E row \in rows : row.setting_key = key
    THEN Some((CHOOSE row \in rows : row.setting_key = key).setting_value)
    ELSE None

\* settings.key || fallback
OrElse(value, fallback) ==
    IF IsSome(value) /\ Get(value) # <<>> THEN Get(value) ELSE fallback

\* WHERE setting_key IN ('site_name', 'site_url')
SeoSettings == SettingsIn({<<"s","i","t","e","_","n","a","m","e">>, site_url})

\* GET /api/seo/chiropractor/:id
SeoChiropractor(r) ==
    LET rq   == req[r]
        rows == {row \in Listings : row.id = rq.id /\ IsActive(row)}
    IN  /\ rq.pc \in {"seoChiro", "seoSettings"}
        /\ req' = [req EXCEPT ![r] =
                IF rq.pc = "seoChiro"
                THEN IF rows = {}
                     THEN Finish(rq, Reply(404, "Chiropractor not found"))
                     ELSE Merge([pc |-> Succ(rq), read |-> Matched(rq, rows),
                                 current |-> Some(CHOOSE row \in rows : TRUE)], rq)
                ELSE Finish(Merge([settingsRead |-> SeoSettings,
                                   result |-> Some([seo |->
                                    [name |-> Get(rq.current).name,
                                     addressRegion |-> Get(rq.current).state,
                                     telephone |-> Get(rq.current).phone,
                                     site_name |->
                                        OrElse(ValueOf(SeoSettings, <<"s","i","t","e","_","n","a","m","e">>),
                                               <<"Just Chiropractor">>),
                                     canonical |->
                                        OrElse(ValueOf(SeoSettings, site_url),
                                               <<"https://justchiropractor.com">>)]])],
                                  rq), Ok)]
        /\ ReadOnly(r)

\* The three statements of a sitemap: the states, the published posts, the
\* listings.
SitemapPages(rq, first) ==
    LET active == {row \in Listings : IsActive(row)}
        sofar  == IF rq.pc = first THEN {} ELSE Get(rq.result).pages
        i      == IndexOf(Chain(rq.route), rq.pc)
        pages  == CASE i = 1 -> {[url |-> "directory", state |-> row.state] :
                                    row \in active}
                    [] i = 2 -> {[url |-> "blog", slug |-> blog_posts[id].slug,
                                  lastmod |-> blog_posts[id].updated_at] :
                                    id \in {id \in DOMAIN blog_posts :
                                            blog_posts[id].is_published}}
                    [] i = 3 -> {[url |-> "chiropractor", id |-> row.id,
                                  slug |-> baseSlug(row.name),
                                  lastmod |-> row.updated_at] : row \in active}
        next   == Merge([read |-> Matched(rq, IF i = 2 THEN {} ELSE active),
                         result |-> Some([pages |-> sofar \cup pages])], rq)
    IN  IF i = 3 THEN Finish(next, Ok) ELSE Merge([pc |-> Succ(rq)], next)

\* GET /api/seo/sitemap-data
SitemapData(r) ==
    /\ req[r].pc \in {"sitemapStates", "sitemapPosts", "sitemapChiros"}
    /\ req' = [req EXCEPT ![r] = SitemapPages(req[r], "sitemapStates")]
    /\ ReadOnly(r)

\* GET /sitemap.xml
generateSitemap(r) ==
    /\ req[r].pc \in {"xmlStates", "xmlPosts", "xmlChiros"}
    /\ req' = [req EXCEPT ![r] = SitemapPages(req[r], "xmlStates")]
    /\ ReadOnly(r)

\* GET /api/admin/chiropractors: SELECT COUNT(*), then SELECT * of every row.
AdminChiroList(r) ==
    LET rq == req[r] IN
    /\ rq.pc \in {"adminListCount", "adminListSelect"}
    /\ req' = [req EXCEPT ![r] =
            IF rq.pc = "adminListCount"
            THEN Merge([pc |-> Succ(rq), read |-> Matched(rq, Listings),
                        result |-> Some([total |-> Cardinality(Listings)])], rq)
            ELSE Finish(Merge([read |-> Matched(rq, Listings),
                               result |-> Some([total |-> Get(rq.result).total,
                                                chiropractors |-> Listings])],
                              rq), Ok)]
    /\ ReadOnly(r)

\* GET /api/admin/audit-log: SELECT COUNT(*), then the newest entries first.
AuditLogList(r) ==
    LET rq == req[r] IN
    /\ rq.pc \in {"auditLogCount", "auditLogSelect"}
    /\ req' = [req EXCEPT ![r] =
            IF rq.pc = "auditLogCount"
            THEN Merge([pc |-> Succ(rq),
                        result |-> Some([total |-> Len(audit_log)])], rq)
            ELSE Finish(Merge([result |-> Some([total |-> Get(rq.result).total,
                                                logs |-> [i \in 1..Len(audit_log) |->
                                                    audit_log[Len(audit_log) + 1 - i]]])],
                              rq), Ok)]
    /\ ReadOnly(r)

(***************************************************************************)
(* The reads of settings.  A request's settingsRead holds the rows of      *)
(* site_settings its statement selected, whose values the response is made *)
(* of.                                                                     *)
(***************************************************************************)
\* A list of public settings that leaves nothing out.
publicSettingsEveryKey == DOMAIN site_settings

publicSettings ==
    {<<"s","i","t","e","_","n","a","m","e">>,
     site_description, site_keywords,
     <<"p","r","i","m","a","r","y","_","c","o","l","o","r">>,
     <<"f","o","o","t","e","r","_","t","e","x","t">>,
     <<"s","o","c","i","a","l","_","f","a","c","e","b","o","o","k">>,
     <<"s","o","c","i","a","l","_","t","w","i","t","t","e","r">>,
     <<"s","o","c","i","a","l","_","l","i","n","k","e","d","i","n">>}

\* GET /api/settings
SettingsPublic(r) ==
    LET rq   == req[r]
        rows == SettingsIn(publicSettings)
    IN  /\ rq.pc = "settingsPublic"
        /\ req' = [req EXCEPT ![r] =
                Finish(Merge([settingsRead |-> rows,
                              result |-> Some([settings |-> rows])], rq), Ok)]
        /\ ReadOnly(r)

\* GET /api/settings/all
SettingsAll(r) ==
    LET rq   == req[r]
        rows == {site_settings[k] : k \in DOMAIN site_settings}
    IN  /\ rq.pc = "settingsAll"
        /\ req' = [req EXCEPT ![r] =
                Finish(Merge([settingsRead |-> rows,
                              result |-> Some([settings |-> rows])], rq), Ok)]
        /\ ReadOnly(r)

home == <<"h", "o", "m", "e">>

\* GET /api/seo/page/:page, the page being the key of the request: home, or a
\* page with no title of its own.
SeoPage(r) ==
    LET rq   == req[r]
        rows == SettingsIn({<<"s","i","t","e","_","n","a","m","e">>, site_description, site_keywords, site_url})
        name == ValueOf(rows, <<"s","i","t","e","_","n","a","m","e">>)
    IN  /\ rq.pc = "seoPage"
        /\ req' = [req EXCEPT ![r] =
                Finish(Merge([settingsRead |-> rows,
                              result |-> Some([seo |->
                                [title |-> IF rq.key = home
                                           THEN <<name, " - Find Chiropractors Across the USA">>
                                           ELSE <<Some(OrElse(name, <<"Just Chiropractor">>))>>,
                                 description |->
                                    OrElse(ValueOf(rows, site_description),
                                           <<"Find trusted chiropractors across the USA">>),
                                 keywords |->
                                    OrElse(ValueOf(rows, site_keywords),
                                           <<"chiropractor, chiropractic care, spine health">>),
                                 canonical |->
                                    <<OrElse(ValueOf(rows, site_url),
                                             <<"https://justchiropractor.com">>),
                                      IF rq.key = home THEN <<>> ELSE rq.key>>]])],
                             rq), Ok)]
        /\ ReadOnly(r)

\* GET /api/seo/blog/:slug: the published post of that slug, then the settings.
SeoBlog(r) ==
    LET rq    == req[r]
        posts == {id \in DOMAIN blog_posts :
                    blog_posts[id].slug = rq.slug /\ blog_posts[id].is_published}
    IN  /\ rq.pc \in {"seoPost", "seoPostSettings"}
        /\ req' = [req EXCEPT ![r] =
                IF rq.pc = "seoPost"
                THEN IF posts = {}
                     THEN Finish(rq, Reply(404, "Blog post not found"))
                     ELSE Merge([pc |-> Succ(rq),
                                 current |-> Some(blog_posts[CHOOSE id \in posts : TRUE])],
                                rq)
                ELSE Finish(Merge([settingsRead |-> SeoSettings,
                                   result |-> Some([seo |->
                                    [title |-> Get(rq.current).title,
                                     canonical |->
                                        <<OrElse(ValueOf(SeoSettings, site_url),
                                                 <<"https://justchiropractor.com">>),
                                          rq.slug>>]])],
                                  rq), Ok)]
        /\ ReadOnly(r)

(***************************************************************************)
(* routes/blog.  blog_posts.slug is UNIQUE: an INSERT or UPDATE that would *)
(* store a slug another row holds throws, and the handler's catch answers  *)
(* 500.  is_published of a body is true, false or absent (None).           *)
(***************************************************************************)
\* The lookup without its AND id != $2: the row being updated counts as well.
SlugTakenByAny(slug, exceptId) ==
    \E id \in DOMAIN blog_posts : blog_posts[id].slug = slug

SlugTaken(slug, exceptId) ==
    \E id \in DOMAIN blog_posts : id # exceptId /\ blog_posts[id].slug = slug

\* is_published !== false
NotFalse(flag) == flag # Some(FALSE)
\* is_published as a condition
Truthy(flag) == flag = Some(TRUE)

\* let slug = createSlug(title); if a row holds it, createSlug(title, Date.now().toString(36))
UniqueSlug(title, exceptId) ==
    IF SlugTaken(createSlug(title, <<>>), exceptId)
    THEN createSlug(title, toString36(now))
    ELSE createSlug(title, <<>>)

PostCreateSlug(r) ==
    LET rq == req[r] IN
    /\ rq.pc = "postCreateSlug"
    /\ req' = [req EXCEPT ![r] =
            Merge([pc |-> Succ(rq), slug |-> UniqueSlug(rq.body.title, 0),
                   collided |-> SlugTaken(createSlug(rq.body.title, <<>>), 0)], rq)]
    /\ UNCHANGED <<db, now, started>> /\ Tally(r)

\* blog_posts.slug declared without UNIQUE.
SlugConstraintDropped(slug, id) == TRUE

\* The UNIQUE constraint on blog_posts.slug, for the row id being written.
SlugConstraintHolds(slug, id) == ~SlugTaken(slug, id)

PostInsert(r) ==
    LET rq  == req[r]
        id  == serial.blog_posts
        row == [id |-> id, title |-> rq.body.title, slug |-> rq.slug,
                is_published |-> NotFalse(rq.body.is_published),
                published_at |-> IF NotFalse(rq.body.is_published) THEN Some(now) ELSE None,
                views |-> 0, updated_at |-> now]
        ok  == SlugConstraintHolds(rq.slug, id)
    IN  /\ rq.pc = "postInsert"
        /\ serial' = [serial EXCEPT !.blog_posts = @ + 1]
        /\ blog_posts' = IF ok THEN (id :> row) @@ blog_posts ELSE blog_posts
        /\ req' = [req EXCEPT ![r] =
                IF ok
                THEN Merge([pc |-> Succ(rq), result |-> Some(row)], Wrote(rq, 1))
                ELSE Merge([failed |-> "unique"],
                           Finish(rq, Reply(500, "Failed to create blog post")))]
        /\ UNCHANGED <<users, chiropractors, site_settings, audit_log, now, started>> /\ Tally(r)

PostCreateAudit(r) ==
    LET rq == req[r] IN
    /\ rq.pc = "postCreateAudit"
    /\ AuditInsert(r,
            AuditEntry(Get(rq.user).id, "create", "blog_post",
                       Some(Get(rq.result).id), None, rq.result),
            Reply(201, "Blog post created successfully"),
            "Failed to create blog post")

\* SELECT * FROM blog_posts WHERE id = $1, 404 when there is no row
PostSelect(r, step, next) ==
    LET rq == req[r] IN
    /\ rq.pc = step
    /\ req' = [req EXCEPT ![r] =
            IF rq.id \in DOMAIN blog_posts
            THEN Merge([pc |-> next, current |-> Some(blog_posts[rq.id])], rq)
            ELSE Finish(rq, Reply(404, "Blog post not found"))]
    /\ UNCHANGED <<db, now, started>> /\ Tally(r)

\* The slug is looked up again only when the title changed.
PostUpdateSelect(r) ==
    PostSelect(r, "postUpdateSelect",
               IF req[r].id \in DOMAIN blog_posts
                  /\ req[r].body.title # blog_posts[req[r].id].title
               THEN "postUpdateSlug" ELSE "postUpdate")

PostUpdateSlug(r) ==
    LET rq == req[r] IN
    /\ rq.pc = "postUpdateSlug"
    /\ req' = [req EXCEPT ![r] =
            Merge([pc |-> Succ(rq), slug |-> UniqueSlug(rq.body.title, rq.id),
                   collided |-> SlugTaken(createSlug(rq.body.title, <<>>), rq.id)], rq)]
    /\ UNCHANGED <<db, now, started>> /\ Tally(r)

\* publishedAt of the update handler, from the body's flag and the row read before
UpdatePublishedAt(flag, current) ==
    IF Truthy(flag) /\ ~current.is_published THEN Some(now)
    ELSE IF ~Truthy(flag) THEN None
    ELSE current.published_at

PostUpdate(r) ==
    LET rq    == req[r]
        cur   == Get(rq.current)
        slug  == IF rq.body.title # cur.title THEN rq.slug ELSE cur.slug
        found == rq.id \in DOMAIN blog_posts
        row   == [blog_posts[rq.id] EXCEPT
                    !.title = rq.body.title, !.slug = slug,
                    !.is_published = NotFalse(rq.body.is_published),
                    !.published_at = UpdatePublishedAt(rq.body.is_published, cur),
                    !.updated_at = now]
        ok    == ~found \/ SlugConstraintHolds(slug, rq.id)
    IN  /\ rq.pc = "postUpdate"
        /\ blog_posts' = IF found /\ ok THEN [blog_posts EXCEPT ![rq.id] = row]
                         ELSE blog_posts
        /\ req' = [req EXCEPT ![r] =
                IF ~ok
                THEN Merge([failed |-> "unique"],
                           Finish(rq, Reply(500, "Failed to update blog post")))
                ELSE IF found
                THEN Merge([pc |-> Succ(rq), slug |-> slug, result |-> Some(row)],
                           Wrote(rq, 1))
                ELSE Merge([pc |-> Succ(rq), slug |-> slug, result |-> None], rq)]
        /\ UNCHANGED <<users, chiropractors, site_settings, audit_log, serial, now, started>> /\ Tally(r)

PostUpdateAudit(r) ==
    LET rq == req[r] IN
    /\ rq.pc = "postUpdateAudit"
    /\ AuditInsert(r,
            AuditEntry(Get(rq.user).id, "update", "blog_post",
                       Some(rq.id), rq.current, rq.result),
            Reply(200, "Blog post updated successfully"),
            "Failed to update blog post")

PostDeleteSelect(r) == PostSelect(r, "postDeleteSelect", "postDelete")

PostDelete(r) ==
    LET rq    == req[r]
        found == rq.id \in DOMAIN blog_posts
    IN  /\ rq.pc = "postDelete"
        /\ blog_posts' = Restrict(blog_posts, DOMAIN blog_posts \ {rq.id})
        /\ req' = [req EXCEPT ![r] =
                Merge([pc |-> Succ(rq)], Wrote(rq, IF found THEN 1 ELSE 0))]
        /\ UNCHANGED <<users, chiropractors, site_settings, audit_log, serial, now, started>> /\ Tally(r)

PostDeleteAudit(r) ==
    LET rq == req[r] IN
    /\ rq.pc = "postDeleteAudit"
    /\ AuditInsert(r,
            AuditEntry(Get(rq.user).id, "delete", "blog_post",
                       Some(rq.id), rq.current, None),
            Reply(200, "Blog post deleted successfully"),
            "Failed to delete blog post")

(***************************************************************************)
(* routes/admin: toggle-publish reads the row, then writes the negated     *)
(* flag it read.                                                           *)
(***************************************************************************)
TogglePublishSelect(r) == PostSelect(r, "togglePublishSelect", "togglePublishUpdate")

TogglePublishUpdate(r) ==
    LET rq          == req[r]
        cur         == Get(rq.current)
        newStatus   == ~cur.is_published
        publishedAt == IF newStatus
                       THEN (IF IsSome(cur.published_at) THEN cur.published_at
                             ELSE Some(now))
                       ELSE None
        found       == rq.id \in DOMAIN blog_posts
        row         == [blog_posts[rq.id] EXCEPT !.is_published = newStatus,
                            !.published_at = publishedAt, !.updated_at = now]
    IN  /\ rq.pc = "togglePublishUpdate"
        /\ blog_posts' = IF found THEN [blog_posts EXCEPT ![rq.id] = row]
                         ELSE blog_posts
        /\ req' = [req EXCEPT ![r] =
                Merge([pc |-> Succ(rq), result |-> IF found THEN Some(row) ELSE None],
                      Wrote(rq, IF found THEN 1 ELSE 0))]
        /\ UNCHANGED <<users, chiropractors, site_settings, audit_log, serial, now, started>> /\ Tally(r)

TogglePublishAudit(r) ==
    LET rq        == req[r]
        newStatus == ~Get(rq.current).is_published
    IN  /\ rq.pc = "togglePublishAudit"
        /\ AuditInsert(r,
                AuditEntry(Get(rq.user).id,
                           IF newStatus THEN "publish" ELSE "unpublish",
                           "blog_post", Some(rq.id),
                           Some([is_published |-> Get(rq.current).is_published]),
                           Some([is_published |-> newStatus])),
                Reply(200, IF newStatus THEN "Blog post published successfully"
                           ELSE "Blog post unpublished successfully"),
                "Failed to toggle publish status")

(***************************************************************************)
(* routes/blog: the public read of a post by its slug counts a view        *)
(***************************************************************************)
PostViewSelect(r) ==
    LET rq   == req[r]
        rows == {id \in DOMAIN blog_posts :
                    blog_posts[id].slug = rq.slug /\ blog_posts[id].is_published}
    IN  /\ rq.pc = "postViewSelect"
        /\ req' = [req EXCEPT ![r] =
                IF rows = {}
                THEN Finish(rq, Reply(404, "Blog post not found"))
                ELSE Merge([pc |-> Succ(rq),
                            result |-> Some(blog_posts[CHOOSE id \in rows : TRUE])], rq)]
        /\ UNCHANGED <<db, now, started>> /\ Tally(r)

\* UPDATE blog_posts SET views = views + 1 WHERE id = $1
PostViewIncrement(r) ==
    LET rq    == req[r]
        id    == Get(rq.result).id
        found == id \in DOMAIN blog_posts
    IN  /\ rq.pc = "postViewIncrement"
        /\ blog_posts' = IF found
                         THEN [blog_posts EXCEPT ![id].views = @ + 1,
                                                 ![id].updated_at = now]
                         ELSE blog_posts
        /\ req' = [req EXCEPT ![r] =
                Finish(Wrote(rq, IF found THEN 1 ELSE 0), Reply(200, ""))]
        /\ UNCHANGED <<users, chiropractors, site_settings, audit_log, serial, now, started>> /\ Tally(r)


(***************************************************************************)
(* routes/settings.  A setting's value is stored as the body gives it; of  *)
(* a setting the model keeps id, setting_key and setting_value.            *)
(***************************************************************************)
SettingRow(id, key, value) ==
    [id |-> id, setting_key |-> key, setting_value |-> value, updated_at |-> now]

SettingPutSelect(r) ==
    LET rq == req[r] IN
    /\ rq.pc = "settingPutSelect"
    /\ req' = [req EXCEPT ![r] =
            IF rq.key \in DOMAIN site_settings
            THEN Merge([pc |-> Succ(rq), current |-> Some(site_settings[rq.key])], rq)
            ELSE Finish(rq, Reply(404, "Setting not found"))]
    /\ UNCHANGED <<db, now, started>> /\ Tally(r)

\* UPDATE site_settings SET setting_value = $1 WHERE setting_key = $2 RETURNING ...
SettingUpdated(key, value) ==
    IF key \in DOMAIN site_settings
    THEN [site_settings EXCEPT ![key].setting_value = value, ![key].updated_at = now]
    ELSE site_settings

SettingPutUpdate(r) ==
    LET rq    == req[r]
        found == rq.key \in DOMAIN site_settings
    IN  /\ rq.pc = "settingPutUpdate"
        /\ site_settings' = SettingUpdated(rq.key, rq.body.value)
        /\ req' = [req EXCEPT ![r] =
                Merge([pc |-> Succ(rq),
                       result |-> IF found THEN Some(site_settings'[rq.key]) ELSE None],
                      Wrote(rq, IF found THEN 1 ELSE 0))]
        /\ UNCHANGED <<users, chiropractors, blog_posts, audit_log, serial, now, started>> /\ Tally(r)

SettingPutAudit(r) ==
    LET rq == req[r] IN
    /\ rq.pc = "settingPutAudit"
    /\ AuditInsert(r,
            AuditEntry(Get(rq.user).id, "update", "setting",
                       Some(Get(rq.current).id),
                       Some([setting_value |-> Get(rq.current).setting_value]),
                       Some([setting_value |-> rq.body.value])),
            Reply(200, "Setting updated successfully"),
            "Failed to update setting")

\* settings of the body: None when it is missing or no object, else its entries
BulkBegin(r) ==
    LET rq == req[r] IN
    /\ rq.pc = "bulkBegin"
    /\ req' = [req EXCEPT ![r] =
            IF ~IsSome(rq.body.settings)
            THEN Finish(rq, Reply(400, "Invalid settings data"))
            ELSE IF Get(rq.body.settings) = <<>>
            THEN Merge([pc |-> "bulkAudit"], rq)
            ELSE Merge([pc |-> "bulkUpdate", i |-> 1], rq)]
    /\ UNCHANGED <<db, now, started>> /\ Tally(r)

\* One turn of the loop over Object.entries(settings)
BulkUpdate(r) ==
    LET rq      == req[r]
        entries == Get(rq.body.settings)
        entry   == entries[rq.i]
        found   == entry.key \in DOMAIN site_settings
    IN  /\ rq.pc = "bulkUpdate"
        /\ site_settings' = SettingUpdated(entry.key, entry.value)
        /\ req' = [req EXCEPT ![r] =
                Merge([pc |-> IF rq.i = Len(entries) THEN "bulkAudit" ELSE "bulkUpdate",
                       i |-> rq.i + 1],
                      Wrote(rq, IF found THEN 1 ELSE 0))]
        /\ UNCHANGED <<users, chiropractors, blog_posts, audit_log, serial, now, started>> /\ Tally(r)

BulkAudit(r) ==
    LET rq == req[r] IN
    /\ rq.pc = "bulkAudit"
    /\ AuditInsert(r,
            AuditEntry(Get(rq.user).id, "bulk_update", "settings", None, None,
                       rq.body.settings),
            Reply(200, "Updated settings successfully"),
            "Failed to update settings")

SettingCreateSelect(r) ==
    LET rq == req[r] IN
    /\ rq.pc = "settingCreateSelect"
    /\ req' = [req EXCEPT ![r] =
            IF rq.body.setting_key \in DOMAIN site_settings
            THEN Finish(rq, Reply(400, "Setting already exists"))
            ELSE Merge([pc |-> Succ(rq)], rq)]
    /\ UNCHANGED <<db, now, started>> /\ Tally(r)

\* site_settings.setting_key is UNIQUE
SettingInsert(r) ==
    LET rq  == req[r]
        id  == serial.site_settings
        row == SettingRow(id, rq.body.setting_key, rq.body.setting_value)
        ok  == rq.body.setting_key \notin DOMAIN site_settings
    IN  /\ rq.pc = "settingInsert"
        /\ serial' = [serial EXCEPT !.site_settings = @ + 1]
        /\ site_settings' = IF ok THEN (rq.body.setting_key :> row) @@ site_settings
                            ELSE site_settings
        /\ req' = [req EXCEPT ![r] =
                IF ok
                THEN Merge([pc |-> Succ(rq), result |-> Some(row)], Wrote(rq, 1))
                ELSE Merge([failed |-> "unique"],
                           Finish(rq, Reply(500, "Failed to create setting")))]
        /\ UNCHANGED <<users, chiropractors, blog_posts, audit_log, now, started>> /\ Tally(r)

SettingCreateAudit(r) ==
    LET rq == req[r] IN
    /\ rq.pc = "settingCreateAudit"
    /\ AuditInsert(r,
            AuditEntry(Get(rq.user).id, "create", "setting",
                       Some(Get(rq.result).id), None, rq.result),
            Reply(201, "Setting created successfully"),
            "Failed to create setting")

\* A handler that protects no key.
coreSettingsNone == {}

coreSettings ==
    {<<"s","i","t","e","_","n","a","m","e">>,
     <<"s","i","t","e","_","d","e","s","c","r","i","p","t","i","o","n">>,
     <<"c","o","n","t","a","c","t","_","e","m","a","i","l">>}

SettingDeleteSelect(r) ==
    LET rq == req[r] IN
    /\ rq.pc = "settingDeleteSelect"
    /\ req' = [req EXCEPT ![r] =
            IF rq.key \in coreSettings
            THEN Finish(rq, Reply(400, "Cannot delete core settings"))
            ELSE IF rq.key \in DOMAIN site_settings
            THEN Merge([pc |-> Succ(rq), current |-> Some(site_settings[rq.key])], rq)
            ELSE Finish(rq, Reply(404, "Setting not found"))]
    /\ UNCHANGED <<db, now, started>> /\ Tally(r)

SettingDelete(r) ==
    LET rq    == req[r]
        found == rq.key \in DOMAIN site_settings
    IN  /\ rq.pc = "settingDelete"
        /\ site_settings' = Restrict(site_settings, DOMAIN site_settings \ {rq.key})
        /\ req' = [req EXCEPT ![r] =
                Merge([pc |-> Succ(rq)], Wrote(rq, IF found THEN 1 ELSE 0))]
        /\ UNCHANGED <<users, chiropractors, blog_posts, audit_log, serial, now, started>> /\ Tally(r)

SettingDeleteAudit(r) ==
    LET rq == req[r] IN
    /\ rq.pc = "settingDeleteAudit"
    /\ AuditInsert(r,
            AuditEntry(Get(rq.user).id, "delete", "setting", None, rq.current, None),
            Reply(200, "Setting deleted successfully"),
            "Failed to delete setting")

(***************************************************************************)
(* routes/admin: accounts.  bcrypt is modelled by the password it hashes.  *)
(***************************************************************************)
bcryptHash(password) == [bcrypt |-> password]
bcryptCompare(password, hash) == hash.bcrypt = password

EmailTaken(email) == \E id \in DOMAIN users : users[id].email = email

UserCreateSelect(r) ==
    LET rq == req[r] IN
    /\ rq.pc = "userCreateSelect"
    /\ req' = [req EXCEPT ![r] =
            IF EmailTaken(rq.body.email)
            THEN Finish(rq, Reply(400, "Email already exists"))
            ELSE Merge([pc |-> Succ(rq)], rq)]
    /\ UNCHANGED <<db, now, started>> /\ Tally(r)

\* users.email is UNIQUE; role 'admin', is_active by its default true
UserInsert(r) ==
    LET rq  == req[r]
        id  == serial.users
        row == [id |-> id, email |-> rq.body.email,
                password |-> bcryptHash(rq.body.password), role |-> "admin",
                is_active |-> TRUE, updated_at |-> now]
        ok  == ~EmailTaken(rq.body.email)
    IN  /\ rq.pc = "userInsert"
        /\ serial' = [serial EXCEPT !.users = @ + 1]
        /\ users' = IF ok THEN (id :> row) @@ users ELSE users
        /\ req' = [req EXCEPT ![r] =
                IF ok
                THEN Merge([pc |-> Succ(rq),
                            result |-> Some([id |-> id, email |-> row.email,
                                             role |-> row.role])],
                           Wrote(rq, 1))
                ELSE Merge([failed |-> "unique"],
                           Finish(rq, Reply(500, "Failed to create user")))]
        /\ UNCHANGED <<chiropractors, blog_posts, site_settings, audit_log, now, started>> /\ Tally(r)

UserCreateAudit(r) ==
    LET rq == req[r] IN
    /\ rq.pc = "userCreateAudit"
    /\ AuditInsert(r,
            AuditEntry(Get(rq.user).id, "create_user", "user",
                       Some(Get(rq.result).id), None, None),
            Reply(201, "User created successfully"),
            "Failed to create user")

ToggleActiveSelect(r) ==
    LET rq == req[r] IN
    /\ rq.pc = "toggleActiveSelect"
    /\ req' = [req EXCEPT ![r] =
            IF rq.id = Get(rq.user).id
            THEN Finish(rq, Reply(400, "Cannot deactivate your own account"))
            ELSE IF rq.id \in DOMAIN users
            THEN Merge([pc |-> Succ(rq), current |-> Some(users[rq.id])], rq)
            ELSE Finish(rq, Reply(404, "User not found"))]
    /\ UNCHANGED <<db, now, started>> /\ Tally(r)

\* An UPDATE that would always store false instead of the negated flag.
ToggledActiveOff(row) == [row EXCEPT !.is_active = FALSE, !.updated_at = now]

\* UPDATE users SET is_active = NOT is_active WHERE id = $1 RETURNING ...
ToggledActive(row) == [row EXCEPT !.is_active = ~row.is_active, !.updated_at = now]

ToggleActiveUpdate(r) ==
    LET rq == req[r] IN
    /\ rq.pc = "toggleActiveUpdate"
    /\ users' = [users EXCEPT ![rq.id] = ToggledActive(@)]
    /\ req' = [req EXCEPT ![r] =
            Merge([pc |-> Succ(rq), result |-> Some(UserColumns(ToggledActive(users[rq.id])))], Wrote(rq, 1))]
    /\ UNCHANGED <<chiropractors, blog_posts, site_settings, audit_log, serial, now, started>> /\ Tally(r)

ToggleActiveAudit(r) ==
    LET rq == req[r] IN
    /\ rq.pc = "toggleActiveAudit"
    /\ AuditInsert(r,
            AuditEntry(Get(rq.user).id,
                       IF Get(rq.result).is_active THEN "activate_user"
                       ELSE "deactivate_user",
                       "user", Some(rq.id), None, None),
            Reply(200, IF Get(rq.result).is_active THEN "User activated successfully"
                       ELSE "User deactivated successfully"),
            "Failed to toggle user status")

(***************************************************************************)
(* routes/auth                                                             *)
(***************************************************************************)
\* expiresIn: one tick of the model's clock stands for the credential's lifetime
JwtExpiresIn == 1

jwtSign(user) == Token(user.id, now + JwtExpiresIn, TRUE)

\* The login handler without its is_active check.
LoginOutcomeNoActiveCheck(body) ==
    LET rows == {id \in DOMAIN users : users[id].email = toLowerCase(body.email)}
        user == users[CHOOSE id \in rows : TRUE]
    IN  IF rows = {}
        THEN [next |-> FALSE, resp |-> Reply(401, "Invalid email or password"),
              token |-> None, user |-> None]
        ELSE IF ~bcryptCompare(body.password, user.password)
        THEN [next |-> FALSE, resp |-> Reply(401, "Invalid email or password"),
              token |-> None, user |-> None]
        ELSE [next |-> TRUE, resp |-> NoResp, token |-> Some(jwtSign(user)),
              user |-> Some(UserView(user.id))]

\* What the login handler answers after its SELECT by email: a response, or
\* the credential it signs for the account.
LoginOutcome(body) ==
    LET rows == {id \in DOMAIN users : users[id].email = toLowerCase(body.email)}
        user == users[CHOOSE id \in rows : TRUE]
    IN  IF rows = {}
        THEN [next |-> FALSE, resp |-> Reply(401, "Invalid email or password"),
              token |-> None, user |-> None]
        ELSE IF ~user.is_active
        THEN [next |-> FALSE, resp |-> Reply(401, "Account is deactivated"),
              token |-> None, user |-> None]
        ELSE IF ~bcryptCompare(body.password, user.password)
        THEN [next |-> FALSE, resp |-> Reply(401, "Invalid email or password"),
              token |-> None, user |-> None]
        ELSE [next |-> TRUE, resp |-> NoResp, token |-> Some(jwtSign(user)),
              user |-> Some(UserView(user.id))]

\* The active flag of the account of that email when login reads it (a record
\* of the run, not read by the code).
LoginSubjectActive(body) ==
    LET rows == {id \in DOMAIN users : users[id].email = toLowerCase(body.email)} IN
    IF rows = {} THEN None ELSE Some(users[CHOOSE id \in rows : TRUE].is_active)

LoginSelect(r) ==
    LET rq  == req[r]
        out == LoginOutcome(rq.body)
    IN  /\ rq.pc = "loginSelect"
        /\ req' = [req EXCEPT ![r] =
                IF out.next
                THEN Merge([pc |-> Succ(rq), user |-> out.user, result |-> out.token,
                            sawActive |-> LoginSubjectActive(rq.body),
                            checkedAt |-> Some(now)], rq)
                ELSE Merge([sawActive |-> LoginSubjectActive(rq.body),
                            checkedAt |-> Some(now)],
                           Finish(rq, out.resp))]
        /\ UNCHANGED <<db, now, started>> /\ Tally(r)

\* INSERT INTO audit_log (user_id, action, ...) VALUES ($1, 'login', ...), then the
\* cookie and the body carry the token
LoginAudit(r) ==
    LET rq == req[r] IN
    /\ rq.pc = "loginAudit"
    /\ AuditInsert(r,
            AuditEntry(Get(rq.user).id, "login", <<>>, None, None, None),
            Reply(200, "Login successful"),
            "Login failed")

LogoutAudit(r) ==
    LET rq == req[r] IN
    /\ rq.pc = "logoutAudit"
    /\ AuditInsert(r,
            AuditEntry(Get(rq.user).id, "logout", <<>>, None, None, None),
            Reply(200, "Logged out successfully"),
            "Logout failed")

PasswordSelect(r) ==
    LET rq == req[r]
        id == Get(rq.user).id
    IN  /\ rq.pc = "passwordSelect"
        /\ req' = [req EXCEPT ![r] =
                IF id \notin DOMAIN users
                THEN Finish(rq, Reply(404, "User not found"))
                ELSE IF ~bcryptCompare(rq.body.currentPassword, users[id].password)
                THEN Finish(rq, Reply(401, "Current password is incorrect"))
                ELSE Merge([pc |-> Succ(rq)], rq)]
        /\ UNCHANGED <<db, now, started>> /\ Tally(r)

PasswordUpdate(r) ==
    LET rq == req[r]
        id == Get(rq.user).id
    IN  /\ rq.pc = "passwordUpdate"
        /\ users' = [users EXCEPT ![id].password = bcryptHash(rq.body.newPassword),
                                  ![id].updated_at = now]
        /\ req' = [req EXCEPT ![r] = Merge([pc |-> Succ(rq)], Wrote(rq, 1))]
        /\ UNCHANGED <<chiropractors, blog_posts, site_settings, audit_log, serial, now, started>> /\ Tally(r)

PasswordAudit(r) ==
    LET rq == req[r] IN
    /\ rq.pc = "passwordAudit"
    /\ AuditInsert(r,
            AuditEntry(Get(rq.user).id, "password_change", <<>>, None, None, None),
            Reply(200, "Password changed successfully"),
            "Failed to change password")

\* router.get('/verify', verifyToken, ...): answers with the identity attached
VerifyHandler(r) ==
    LET rq == req[r] IN
    /\ rq.pc = "verifyHandler"
    /\ req' = [req EXCEPT ![r] = Finish(rq, Reply(200, "valid"))]
    /\ UNCHANGED <<db, now, started>> /\ Tally(r)

(***************************************************************************)
(* optionalAuth: attaches the identity when the credential verifies and    *)
(* its account is active, ignores every error of the credential, and       *)
(* always calls next().                                                    *)
(***************************************************************************)
OptionalAuthOutcome(rq) ==
    LET token == ExtractToken(rq) IN
    IF IsSome(token)
       /\ JwtVerify(Get(token)) = "ok"
       /\ Get(token).userId \in DOMAIN users
       /\ users[Get(token).userId].is_active
    THEN Some([id |-> Get(token).userId, email |-> users[Get(token).userId].email,
               role |-> users[Get(token).userId].role])
    ELSE None

OptionalAuth(r) ==
    LET rq == req[r] IN
    /\ rq.pc = "optionalAuth"
    /\ req' = [req EXCEPT ![r] =
            Merge([pc |-> Succ(rq), handled |-> Entered(Succ(rq)),
                   user |-> OptionalAuthOutcome(rq),
                   sawActive |-> SubjectActive(rq), checkedAt |-> Some(now)], rq)]
    /\ UNCHANGED <<db, now, started>> /\ Tally(r)

\* The handler behind optionalAuth: it runs whatever optionalAuth found.
OptionalHandler(r) ==
    LET rq == req[r] IN
    /\ rq.pc = "optionalHandler"
    /\ req' = [req EXCEPT ![r] = Finish(rq, Reply(200, "handled"))]
    /\ UNCHANGED <<db, now, started>> /\ Tally(r)


(***************************************************************************)
(* The database after scripts/init-db.js and the seeding script: the       *)
(* default administrator, a second administrator, an account whose role   *)
(* is not admin, one listing, one post and the default settings.           *)
(***************************************************************************)
UserRow(id, email, password, role, active) ==
    [id |-> id, email |-> email, password |-> bcryptHash(password), role |-> role,
     is_active |-> active, updated_at |-> 0]

AdminEmail == <<"a", "@", "j", "c">>
SecondEmail == <<"b", "@", "j", "c">>
EditorEmail == <<"e", "@", "j", "c">>
AdminPassword == <<"A", "d", "m", "i", "n", "1", "2", "3">>
SecondPassword == <<"S", "e", "c", "o", "n", "d", "4", "5">>
EditorPassword == <<"E", "d", "i", "t", "o", "r", "6", "7">>

SeedListing ==
    [id |-> 1, name |-> <<"D", "r">>, state |-> <<"C", "A">>,
     phone |-> <<"5", "-", "5">>, is_featured |-> TRUE, is_active |-> TRUE,
     updated_at |-> 0]

SeedTitle == <<"S", "p", "i", "n", "e">>

SeedPost ==
    [id |-> 1, title |-> SeedTitle, slug |-> createSlug(SeedTitle, <<>>),
     is_published |-> TRUE, published_at |-> Some(0), views |-> 0, updated_at |-> 0]

site_name == <<"s","i","t","e","_","n","a","m","e">>
contact_email == <<"c","o","n","t","a","c","t","_","e","m","a","i","l">>
footer_text == <<"f","o","o","t","e","r","_","t","e","x","t">>
google_analytics_id ==
    <<"g","o","o","g","l","e","_","a","n","a","l","y","t","i","c","s","_","i","d">>

SeedSetting(id, key, value) ==
    [id |-> id, setting_key |-> key, setting_value |-> value, updated_at |-> 0]

\* The database after init-db, the clock and the counters.
InitStore ==
    /\ users = (1 :> UserRow(1, AdminEmail, AdminPassword, "admin", TRUE))
            @@ (2 :> UserRow(2, SecondEmail, SecondPassword, "admin", TRUE))
            @@ (3 :> UserRow(3, EditorEmail, EditorPassword, "editor", TRUE))
    /\ chiropractors = (1 :> SeedListing)
    /\ blog_posts = (1 :> SeedPost)
    /\ site_settings = (site_name :> SeedSetting(1, site_name, <<"J", "C">>))
            @@ (contact_email :> SeedSetting(2, contact_email, <<"c", "@", "j", "c">>))
            @@ (footer_text :> SeedSetting(3, footer_text, <<"f">>))
            @@ (google_analytics_id :> SeedSetting(4, google_analytics_id, <<>>))
    /\ audit_log = <<>>
    /\ serial = [users |-> 4, chiropractors |-> 2, blog_posts |-> 2, site_settings |-> 5]
    /\ now = 0
    /\ started = 0
    /\ tally = [succeeded |-> 0, mutated |-> 0, deleted |-> <<>>]

Init == InitStore /\ req = [r \in Slots |-> Idle]

(***************************************************************************)
(* The listing pipeline: the write routes of a listing, requested by an    *)
(* administrator, by an account that is no administrator and anonymously.  *)
(***************************************************************************)
AdminToken == Token(1, FarFuture, TRUE)
EditorToken == Token(3, FarFuture, TRUE)

ListingCredentials == {None, Bearer(AdminToken), Bearer(EditorToken)}

ListingBody(name, phone) ==
    [name |-> name, state |-> <<"N", "Y">>, phone |-> phone, is_featured |-> FALSE]

ListingBodies ==
    {ListingBody(<<"A", "l">>, <<"5", "5", "5">>),
     ListingBody(<<" ", "<", "x", ">">>, <<"(", "5", ")">>),
     ListingBody(<<"<", "x", ">", " ">>, <<"a", "b", "c">>),
     ListingBody(<<"A">>, <<" ">>)}

ListingIds == {0, 1, 2}

ListingRequests ==
    {NewRequest("POST /chiropractors", h, None, 0, <<>>, b) :
        h \in ListingCredentials, b \in ListingBodies}
    \cup {NewRequest("PUT /chiropractors/:id", h, None, i, <<>>, b) :
        h \in ListingCredentials, i \in ListingIds, b \in ListingBodies}
    \cup {NewRequest(route, h, None, i, <<>>, [none |-> TRUE]) :
        route \in {"DELETE /chiropractors/:id",
                   "POST /admin/chiropractors/:id/restore",
                   "DELETE /admin/chiropractors/:id/permanent"},
        h \in ListingCredentials, i \in ListingIds}

ReceiveListing(r) == \E rq \in ListingRequests : Receive(r, rq)

NextListing ==
    \/ Tick
    \/ \E r \in Slots :
        \/ ReceiveListing(r)
        \/ VerifyToken(r)
        \/ IsAdmin(r)
        \/ Validate(r)
        \/ ChiroInsert(r)
        \/ ChiroCreateAudit(r)
        \/ ChiroUpdateSelect(r)
        \/ ChiroUpdate(r)
        \/ ChiroUpdateAudit(r)
        \/ ChiroDeleteSelect(r)
        \/ ChiroSoftDelete(r)
        \/ ChiroDeleteAudit(r)
        \/ ChiroRestore(r)
        \/ ChiroRestoreAudit(r)
        \/ ChiroPermanentSelect(r)
        \/ ChiroPermanentDelete(r)
        \/ ChiroPermanentAudit(r)

SpecListing == Init /\ [][NextListing]_vars


(***************************************************************************)
(* The blog pipeline: the write routes of a post and the public read by    *)
(* slug, requested by the administrator.                                   *)
(***************************************************************************)
PostBody(title, flag) == [title |-> title, is_published |-> flag]

\* Titles: the seed post's, one with the same slug, a new one, one whose slug is
\* the seed slug with the clock's suffix, one without a letter or digit, a short one.
BlogTitles ==
    {SeedTitle,
     <<"s", "p", "i", "n", "e", "!">>,
     <<"N", "e", "c", "k", "s">>,
     <<"S", "p", "i", "n", "e", " ", "0">>,
     <<"!", "!", "!", "!", "!">>,
     <<"H", "i">>}

BlogIds == {1, 2}

BlogRequests ==
    {NewRequest("POST /blog", Bearer(AdminToken), None, 0, <<>>, PostBody(t, f)) :
        t \in BlogTitles, f \in {None, Some(FALSE)}}
    \cup {NewRequest("PUT /blog/:id", Bearer(AdminToken), None, i, <<>>, PostBody(t, f)) :
        i \in BlogIds, t \in BlogTitles, f \in {None, Some(TRUE), Some(FALSE)}}
    \cup {NewRequest(route, Bearer(AdminToken), None, i, <<>>, [none |-> TRUE]) :
        route \in {"DELETE /blog/:id", "POST /admin/blog-posts/:id/toggle-publish"},
        i \in BlogIds}
    \cup {Merge([slug |-> createSlug(SeedTitle, <<>>)],
                NewRequest("GET /blog/slug/:slug", None, None, 0, <<>>, [none |-> TRUE]))}

ReceiveBlog(r) == \E rq \in BlogRequests : Receive(r, rq)

NextBlog ==
    \/ Tick
    \/ \E r \in Slots :
        \/ ReceiveBlog(r)
        \/ VerifyToken(r)
        \/ IsAdmin(r)
        \/ Validate(r)
        \/ PostCreateSlug(r)
        \/ PostInsert(r)
        \/ PostCreateAudit(r)
        \/ PostUpdateSelect(r)
        \/ PostUpdateSlug(r)
        \/ PostUpdate(r)
        \/ PostUpdateAudit(r)
        \/ PostDeleteSelect(r)
        \/ PostDelete(r)
        \/ PostDeleteAudit(r)
        \/ TogglePublishSelect(r)
        \/ TogglePublishUpdate(r)
        \/ TogglePublishAudit(r)
        \/ PostViewSelect(r)
        \/ PostViewIncrement(r)

SpecBlog == Init /\ [][NextBlog]_vars

(***************************************************************************)
(* Authentication: login, the routes behind verifyToken and a route behind *)
(* optionalAuth, requested with every kind of credential.                  *)
(***************************************************************************)
SecondToken == Token(2, FarFuture, TRUE)
ExpiringToken == Token(1, 1, TRUE)
ForgedToken == Token(1, FarFuture, FALSE)
StrangerToken == Token(9, FarFuture, TRUE)

\* <<Authorization header, token cookie>>
AuthCredentials ==
    {<<None, None>>,
     <<Bearer(AdminToken), None>>,
     <<Bearer(SecondToken), None>>,
     <<Bearer(EditorToken), None>>,
     <<Bearer(ExpiringToken), None>>,
     <<Bearer(ForgedToken), None>>,
     <<Bearer(StrangerToken), None>>,
     <<None, Some(SecondToken)>>,
     <<Bearer(AdminToken), Some(EditorToken)>>,
     <<Basic(AdminToken), Some(SecondToken)>>,
     <<Basic(AdminToken), None>>,
     <<Bearer(ForgedToken), Some(AdminToken)>>}

LoginBodies ==
    {[email |-> <<"A", "@", "j", "c">>, password |-> AdminPassword],
     [email |-> SecondEmail, password |-> SecondPassword],
     [email |-> SecondEmail, password |-> AdminPassword],
     [email |-> <<"z", "@", "j", "c">>, password |-> AdminPassword],
     [email |-> <<"a", "b">>, password |-> <<>>]}

NewPassword == <<"N", "e", "w", "p", "a", "s", "s", "8">>

PasswordBodies ==
    {[currentPassword |-> AdminPassword, newPassword |-> NewPassword],
     [currentPassword |-> NewPassword, newPassword |-> <<"s", "h", "o", "r", "t">>]}

AuthRequests ==
    {NewRequest(route, c[1], c[2], 0, <<>>, [none |-> TRUE]) :
        route \in {"GET /auth/verify", "optionalAuth", "POST /auth/logout"},
        c \in AuthCredentials}
    \cup {NewRequest("POST /admin/users/:id/toggle-active", c[1], c[2], i, <<>>,
                     [none |-> TRUE]) : c \in AuthCredentials, i \in {1, 2}}
    \cup {NewRequest("DELETE /chiropractors/:id", c[1], c[2], 1, <<>>, [none |-> TRUE]) :
        c \in AuthCredentials}
    \cup {NewRequest("POST /auth/change-password", c[1], c[2], 0, <<>>, b) :
        c \in AuthCredentials, b \in PasswordBodies}
    \cup {NewRequest("POST /auth/login", None, None, 0, <<>>, b) : b \in LoginBodies}

ReceiveAuth(r) == \E rq \in AuthRequests : Receive(r, rq)

NextAuth ==
    \/ Tick
    \/ \E r \in Slots :
        \/ ReceiveAuth(r)
        \/ VerifyToken(r)
        \/ IsAdmin(r)
        \/ Validate(r)
        \/ OptionalAuth(r)
        \/ OptionalHandler(r)
        \/ VerifyHandler(r)
        \/ LoginSelect(r)
        \/ LoginAudit(r)
        \/ LogoutAudit(r)
        \/ PasswordSelect(r)
        \/ PasswordUpdate(r)
        \/ PasswordAudit(r)
        \/ ToggleActiveSelect(r)
        \/ ToggleActiveUpdate(r)
        \/ ToggleActiveAudit(r)
        \/ ChiroDeleteSelect(r)
        \/ ChiroSoftDelete(r)
        \/ ChiroDeleteAudit(r)

SpecAuth == Init /\ [][NextAuth]_vars

(***************************************************************************)
(* Every route that writes, requested by the administrator.                *)
(***************************************************************************)
AdminRequest(route, id, key, body) ==
    NewRequest(route, Bearer(AdminToken), None, id, key, body)

NoBody == [none |-> TRUE]

AllRequests ==
    {AdminRequest("POST /chiropractors", 0, <<>>, ListingBody(<<"A", "l">>, <<"5", "5", "5">>)),
     AdminRequest("POST /chiropractors", 0, <<>>, ListingBody(<<"A", "l">>, <<"a", "b", "c">>)),
     AdminRequest("PUT /chiropractors/:id", 1, <<>>, ListingBody(<<"A", "l">>, <<"5", "5", "5">>)),
     AdminRequest("DELETE /chiropractors/:id", 1, <<>>, NoBody),
     AdminRequest("POST /admin/chiropractors/:id/restore", 1, <<>>, NoBody),
     AdminRequest("DELETE /admin/chiropractors/:id/permanent", 1, <<>>, NoBody),
     AdminRequest("POST /blog", 0, <<>>, PostBody(SeedTitle, None)),
     AdminRequest("PUT /blog/:id", 1, <<>>, PostBody(<<"N", "e", "c", "k", "s">>, Some(TRUE))),
     AdminRequest("DELETE /blog/:id", 1, <<>>, NoBody),
     AdminRequest("POST /admin/blog-posts/:id/toggle-publish", 1, <<>>, NoBody),
     Merge([slug |-> createSlug(SeedTitle, <<>>)],
           NewRequest("GET /blog/slug/:slug", None, None, 0, <<>>, NoBody)),
     AdminRequest("PUT /settings/:key", 0, footer_text, [value |-> <<"g">>]),
     AdminRequest("POST /settings/bulk", 0, <<>>,
                  [settings |-> Some(<<[key |-> footer_text, value |-> <<"h">>],
                                       [key |-> <<"n", "o">>, value |-> <<"h">>]>>)]),
     AdminRequest("POST /settings/bulk", 0, <<>>,
                  [settings |-> Some(<<[key |-> <<"n", "o">>, value |-> <<"h">>]>>)]),
     AdminRequest("POST /settings/bulk", 0, <<>>, [settings |-> Some(<<>>)]),
     AdminRequest("POST /settings/bulk", 0, <<>>, [settings |-> None]),
     AdminRequest("POST /settings", 0, <<>>,
                  [setting_key |-> <<"n", "e", "w">>, setting_value |-> <<"v">>]),
     AdminRequest("DELETE /settings/:key", 0, footer_text, NoBody),
     AdminRequest("DELETE /settings/:key", 0, site_name, NoBody),
     AdminRequest("POST /admin/users", 0, <<>>,
                  [email |-> <<"n", "@", "j", "c">>, password |-> NewPassword]),
     AdminRequest("POST /admin/users/:id/toggle-active", 2, <<>>, NoBody),
     NewRequest("POST /auth/login", None, None, 0, <<>>,
                [email |-> AdminEmail, password |-> AdminPassword]),
     AdminRequest("POST /auth/logout", 0, <<>>, NoBody),
     AdminRequest("POST /auth/change-password", 0, <<>>,
                  [currentPassword |-> AdminPassword, newPassword |-> NewPassword]),
     AdminRequest("GET /admin/audit-log", 0, <<>>, NoBody)}

ReceiveAny(r) == \E rq \in AllRequests : Receive(r, rq)

Next ==
    \/ Tick
    \/ \E r \in Slots :
        \/ ReceiveAny(r)
        \/ VerifyToken(r)
        \/ IsAdmin(r)
        \/ Validate(r)
        \/ ChiroInsert(r)
        \/ ChiroCreateAudit(r)
        \/ ChiroUpdateSelect(r)
        \/ ChiroUpdate(r)
        \/ ChiroUpdateAudit(r)
        \/ ChiroDeleteSelect(r)
        \/ ChiroSoftDelete(r)
        \/ ChiroDeleteAudit(r)
        \/ ChiroRestore(r)
        \/ ChiroRestoreAudit(r)
        \/ ChiroPermanentSelect(r)
        \/ ChiroPermanentDelete(r)
        \/ ChiroPermanentAudit(r)
        \/ PostCreateSlug(r)
        \/ PostInsert(r)
        \/ PostCreateAudit(r)
        \/ PostUpdateSelect(r)
        \/ PostUpdateSlug(r)
        \/ PostUpdate(r)
        \/ PostUpdateAudit(r)
        \/ PostDeleteSelect(r)
        \/ PostDelete(r)
        \/ PostDeleteAudit(r)
        \/ TogglePublishSelect(r)
        \/ TogglePublishUpdate(r)
        \/ TogglePublishAudit(r)
        \/ PostViewSelect(r)
        \/ PostViewIncrement(r)
        \/ SettingPutSelect(r)
        \/ SettingPutUpdate(r)
        \/ SettingPutAudit(r)
        \/ BulkBegin(r)
        \/ BulkUpdate(r)
        \/ BulkAudit(r)
        \/ SettingCreateSelect(r)
        \/ SettingInsert(r)
        \/ SettingCreateAudit(r)
        \/ SettingDeleteSelect(r)
        \/ SettingDelete(r)
        \/ SettingDeleteAudit(r)
        \/ UserCreateSelect(r)
        \/ UserInsert(r)
        \/ UserCreateAudit(r)
        \/ ToggleActiveSelect(r)
        \/ ToggleActiveUpdate(r)
        \/ ToggleActiveAudit(r)
        \/ LoginSelect(r)
        \/ LoginAudit(r)
        \/ LogoutAudit(r)
        \/ PasswordSelect(r)
        \/ PasswordUpdate(r)
        \/ PasswordAudit(r)
        \/ AuditLogList(r)

Spec == Init /\ [][Next]_vars


(***************************************************************************)
(* The settings: the public and the admin reads, the SEO routes that read  *)
(* settings, and the admin writes.                                         *)
(***************************************************************************)
SettingsReads ==
    {NewRequest("GET /settings", None, None, 0, <<>>, NoBody),
     NewRequest("GET /seo/page/:page", None, None, 0, home, NoBody),
     NewRequest("GET /seo/page/:page", None, None, 0, <<"x">>, NoBody),
     NewRequest("GET /seo/chiropractor/:id", None, None, 1, <<>>, NoBody),
     Merge([slug |-> createSlug(SeedTitle, <<>>)],
           NewRequest("GET /seo/blog/:slug", None, None, 0, <<>>, NoBody))}
    \cup {NewRequest("GET /settings/all", h, None, 0, <<>>, NoBody) :
            h \in {None, Bearer(AdminToken), Bearer(EditorToken)}}

SettingsWrites ==
    {AdminRequest("POST /settings", 0, <<>>,
                  [setting_key |-> site_url, setting_value |-> <<"u">>]),
     AdminRequest("POST /settings", 0, <<>>,
                  [setting_key |-> site_description, setting_value |-> <<"d">>]),
     AdminRequest("PUT /settings/:key", 0, contact_email, [value |-> <<"e">>]),
     AdminRequest("PUT /settings/:key", 0, footer_text, [value |-> <<"g">>]),
     AdminRequest("POST /settings/bulk", 0, <<>>,
                  [settings |-> Some(<<[key |-> site_name, value |-> <<"h">>],
                                       [key |-> google_analytics_id, value |-> <<"i">>]>>)])}
    \cup {NewRequest("DELETE /settings/:key", h, None, 0, k, NoBody) :
            h \in {Bearer(AdminToken), Bearer(EditorToken)},
            k \in {site_name, site_description, contact_email, footer_text,
                   google_analytics_id}}

ReceiveSettings(r) ==
    \E rq \in SettingsReads \cup SettingsWrites : Receive(r, rq)

NextSettings ==
    \/ Tick
    \/ \E r \in Slots :
        \/ ReceiveSettings(r)
        \/ VerifyToken(r)
        \/ IsAdmin(r)
        \/ Validate(r)
        \/ SettingsPublic(r)
        \/ SettingsAll(r)
        \/ SeoPage(r)
        \/ SeoBlog(r)
        \/ SeoChiropractor(r)
        \/ SettingPutSelect(r)
        \/ SettingPutUpdate(r)
        \/ SettingPutAudit(r)
        \/ BulkBegin(r)
        \/ BulkUpdate(r)
        \/ BulkAudit(r)
        \/ SettingCreateSelect(r)
        \/ SettingInsert(r)
        \/ SettingCreateAudit(r)
        \/ SettingDeleteSelect(r)
        \/ SettingDelete(r)
        \/ SettingDeleteAudit(r)

SpecSettings == Init /\ [][NextSettings]_vars

(***************************************************************************)
(* The directory: the public reads, the admin list and the admin writes of *)
(* listings.                                                               *)
(***************************************************************************)
MaxDirectoryRequests == 3

NY == <<"N", "Y">>
CA == <<"C", "A">>

DirectoryReads ==
    {NewRequest("GET /chiropractors", None, None, 0, k, NoBody) : k \in {<<>>, NY}}
    \cup {NewRequest("GET /chiropractors/state/:state", None, None, 0, CA, NoBody),
          NewRequest("GET /chiropractors/states", None, None, 0, <<>>, NoBody),
          NewRequest("GET /chiropractors/:id/related", None, None, 1, <<>>, NoBody),
          NewRequest("GET /seo/chiropractor/:id", None, None, 1, <<>>, NoBody),
          NewRequest("GET /seo/sitemap-data", None, None, 0, <<>>, NoBody),
          NewRequest("GET /sitemap.xml", None, None, 0, <<>>, NoBody),
          NewRequest("GET /admin/chiropractors", Bearer(AdminToken), None, 0, <<>>,
                     NoBody)}
    \cup {NewRequest("GET /chiropractors/:id", None, None, i, <<>>, NoBody) :
            i \in {0, 1}}

DirectoryWrites ==
    {AdminRequest(route, 1, <<>>, NoBody) :
        route \in {"DELETE /chiropractors/:id",
                   "POST /admin/chiropractors/:id/restore",
                   "DELETE /admin/chiropractors/:id/permanent"}}
    \cup {AdminRequest("PUT /chiropractors/:id", 1, <<>>,
                       ListingBody(<<"A", "l">>, <<"5", "5", "5">>)),
          AdminRequest("POST /chiropractors", 0, <<>>,
                       ListingBody(<<"A", "l">>, <<"5", "5", "5">>))}

ReceiveDirectory(r) ==
    /\ Free(r)
    /\ \A q \in Slots : q < r => ~Free(q)
    /\ started < MaxDirectoryRequests
    /\ \E rq \in DirectoryReads \cup DirectoryWrites : req' = [req EXCEPT ![r] = rq]
    /\ started' = started + 1
    /\ UNCHANGED <<db, now, tally>>

NextDirectory ==
    \/ Tick
    \/ \E r \in Slots :
        \/ ReceiveDirectory(r)
        \/ VerifyToken(r)
        \/ IsAdmin(r)
        \/ Validate(r)
        \/ ChiroList(r)
        \/ ChiroByState(r)
        \/ ChiroStates(r)
        \/ ChiroById(r)
        \/ ChiroRelated(r)
        \/ SeoChiropractor(r)
        \/ SitemapData(r)
        \/ generateSitemap(r)
        \/ AdminChiroList(r)
        \/ ChiroInsert(r)
        \/ ChiroCreateAudit(r)
        \/ ChiroUpdateSelect(r)
        \/ ChiroUpdate(r)
        \/ ChiroUpdateAudit(r)
        \/ ChiroDeleteSelect(r)
        \/ ChiroSoftDelete(r)
        \/ ChiroDeleteAudit(r)
        \/ ChiroRestore(r)
        \/ ChiroRestoreAudit(r)
        \/ ChiroPermanentSelect(r)
        \/ ChiroPermanentDelete(r)
        \/ ChiroPermanentAudit(r)

SpecDirectory == Init /\ [][NextDirectory]_vars

(***************************************************************************)
(* createSlug on its own: a call with a title, then the call with the      *)
(* suffix of the current time that follows a collision.                    *)
(***************************************************************************)
MaxTitleLen == 5

TitleChars == {"A", "b", "7", " ", "-", "_"}

RECURSIVE SeqsUpTo(_, _)
SeqsUpTo(S, n) ==
    IF n = 0 THEN {<<>>}
    ELSE LET shorter == SeqsUpTo(S, n - 1)
         IN  shorter \cup {Append(t, c) : t \in shorter, c \in S}

SlugTitles == SeqsUpTo(TitleChars, MaxTitleLen)

SlugCall(title) ==
    Merge([route |-> "createSlug", pc |-> "createSlug", body |-> [title |-> title]],
          Idle)

InitSlug ==
    /\ InitStore
    /\ \E title \in SlugTitles :
        req = [r \in Slots |-> IF r = 1 THEN SlugCall(title) ELSE Idle]

\* createSlug(title)
CallCreateSlug(r) ==
    LET rq == req[r] IN
    /\ rq.pc = "createSlug"
    /\ req' = [req EXCEPT ![r] =
            Merge([pc |-> "createSlugSuffixed",
                   slug |-> createSlug(rq.body.title, <<>>)], rq)]
    /\ UNCHANGED <<db, now, started, tally>>

\* createSlug(title, Date.now().toString(36))
CallCreateSlugSuffixed(r) ==
    LET rq == req[r] IN
    /\ rq.pc = "createSlugSuffixed"
    /\ req' = [req EXCEPT ![r] =
            Merge([pc |-> "done",
                   result |-> Some(createSlug(rq.body.title, toString36(now)))], rq)]
    /\ UNCHANGED <<db, now, started, tally>>

NextSlug ==
    \/ Tick
    \/ \E r \in Slots :
        \/ CallCreateSlug(r)
        \/ CallCreateSlugSuffixed(r)

SpecSlug == InitSlug /\ [][NextSlug]_vars

(***************************************************************************)
(* sanitizeInput on its own: applied to a value, then to its own result.   *)
(* The strings are made of up to MaxPieces pieces.                         *)
(***************************************************************************)
MaxPieces == 4

Pieces == {<<"a">>, <<" ">>, <<"<", "x", ">">>, CommentOpen, CommentClose}

RECURSIVE PiecedUpTo(_)
PiecedUpTo(n) ==
    IF n = 0 THEN {<<>>}
    ELSE LET shorter == PiecedUpTo(n - 1)
         IN  shorter \cup {t \o c : t \in shorter, c \in Pieces}

SanitizeInputs ==
    {Str(chars) : chars \in PiecedUpTo(MaxPieces)}
    \cup {NonString("number", <<"5">>), NonString("boolean", <<"true">>),
          NonString("array", <<" ", "<", "x", ">">>)}

SanitizeCall(v) ==
    Merge([route |-> "sanitizeInput", pc |-> "sanitizeInput", body |-> [value |-> v]],
          Idle)

InitSanitize ==
    /\ InitStore
    /\ \E v \in SanitizeInputs :
        req = [r \in Slots |-> IF r = 1 THEN SanitizeCall(v) ELSE Idle]

\* sanitizeInput(value)
CallSanitize(r) ==
    LET rq == req[r] IN
    /\ rq.pc = "sanitizeInput"
    /\ req' = [req EXCEPT ![r] =
            Merge([pc |-> "sanitizeInputAgain",
                   current |-> Some(customSanitizer(rq.body.value))], rq)]
    /\ UNCHANGED <<db, now, started, tally>>

\* sanitizeInput(sanitizeInput(value))
CallSanitizeAgain(r) ==
    LET rq == req[r] IN
    /\ rq.pc = "sanitizeInputAgain"
    /\ req' = [req EXCEPT ![r] =
            Merge([pc |-> "done",
                   result |-> Some(customSanitizer(Get(rq.current)))], rq)]
    /\ UNCHANGED <<db, now, started, tally>>

NextSanitize ==
    \/ Tick
    \/ \E r \in Slots :
        \/ CallSanitize(r)
        \/ CallSanitizeAgain(r)

SpecSanitize == InitSanitize /\ [][NextSanitize]_vars

(***************************************************************************)
(* The properties.                                                         *)
(***************************************************************************)
Done(rq) == rq.pc = "done"

\* The route passes verifyToken / isAdmin.
Guarded(route) == \E i \in DOMAIN Chain(route) : Chain(route)[i] = "verifyToken"
AdminOnly(route) == \E i \in DOMAIN Chain(route) : Chain(route)[i] = "isAdmin"

C2_WriteAndAuditTogether ==
    \A r \in Slots : (Done(req[r]) /\ req[r].writes > 0) => req[r].audits > 0

\* C3: in every reachable state, also under interleaved create and update
\* requests, no two posts have the same slug.
C3_SlugsUnique ==
    \A a, b \in DOMAIN blog_posts : a # b => blog_posts[a].slug # blog_posts[b].slug

\* A create and an update that raced for the same slug: one stored it, the
\* other was stopped by the constraint.
C3_Witness ==
    \E r, q \in Slots :
        /\ req[r].route = "POST /blog" /\ req[q].route = "PUT /blog/:id"
        /\ Done(req[r]) /\ Done(req[q])
        /\ req[r].slug = req[q].slug
        /\ ~req[r].collided /\ ~req[q].collided
        /\ (req[r].failed = "unique") # (req[q].failed = "unique")
        /\ \E id \in DOMAIN blog_posts : blog_posts[id].slug = req[r].slug

\* C4: creating a post whose title's slug an existing post holds succeeds (the
\* storage itself not failing at the audit statement): the post is stored with
\* a slug other than the held one and the caller gets no error.
C4_CollisionStillSucceeds ==
    \A r \in Slots :
        LET rq == req[r] IN
        (rq.route = "POST /blog" /\ Done(rq) /\ rq.collided /\ rq.failed # "audit")
            => /\ rq.resp.status = 201
               /\ IsSome(rq.result)
               /\ Get(rq.result).slug # createSlug(rq.body.title, <<>>)

\* The field rules of a listing, on the payload as it was received.
NameRuleBroken(v) ==
    LET t == trim(v) IN t = <<>> \/ Len(t) < NameMinLen \/ Len(t) > NameMaxLen
StateRuleBroken(v) == LET t == trim(v) IN t = <<>> \/ Len(t) > StateMaxLen
PhoneRuleBroken(v) ==
    LET t == trim(v) IN t = <<>> \/ ~MatchesPhone(t) \/ Len(t) > PhoneMaxLen

BrokenFields(rq) ==
    {f \in {"name", "state", "phone"} :
        \/ f = "name" /\ NameRuleBroken(rq.payload.name)
        \/ f = "state" /\ StateRuleBroken(rq.payload.state)
        \/ f = "phone" /\ PhoneRuleBroken(rq.payload.phone)}
    \cup (IF rq.route = "PUT /chiropractors/:id" /\ rq.id < 1 THEN {"id"} ELSE {})

ListingWrite(rq) == rq.route \in {"POST /chiropractors", "PUT /chiropractors/:id"}

\* The request has passed authentication and authorization and its validation
\* middleware has run.
Validation(rq) == "Authorized" \in Range(rq.stages) /\ rq.pc # "validate"

\* C5: a listing write whose payload breaks a field rule ends in 400
\* "Validation failed" with a violation for every field whose rule it breaks,
\* and has changed no row and appended no AuditEntry.
C5_InvalidPayloadRejected ==
    \A r \in Slots :
        LET rq == req[r] IN
        (ListingWrite(rq) /\ Validation(rq) /\ BrokenFields(rq) # {})
            => /\ Done(rq)
               /\ rq.resp.status = 400 /\ rq.resp.error = "Validation failed"
               /\ \A f \in BrokenFields(rq) :
                    \E i \in DOMAIN rq.resp.details : rq.resp.details[i].field = f
               /\ rq.writes = 0 /\ rq.audits = 0 /\ ~rq.handled

C5_Witness ==
    \E r \in Slots :
        /\ req[r].route = "POST /chiropractors"
        /\ req[r].payload.phone = <<"a", "b", "c">>
        /\ Done(req[r]) /\ req[r].resp.status = 400
        /\ \E i \in DOMAIN req[r].resp.details : req[r].resp.details[i].field = "phone"
        /\ \A id \in DOMAIN chiropractors : chiropractors[id].phone # <<"a", "b", "c">>

\* Why the credential of a request did not authenticate when it was checked;
\* "" when it did.
CredentialFault(rq) ==
    LET token == ExtractToken(rq) IN
    IF ~IsSome(token) THEN "missing"
    ELSE IF ~Get(token).sig THEN "invalid"
    ELSE IF Get(rq.checkedAt) >= Get(token).exp THEN "expired"
    ELSE IF rq.sawActive = None THEN "unknown"
    ELSE IF rq.sawActive = Some(FALSE) THEN "deactivated"
    ELSE ""

Checked(rq) == IsSome(rq.checkedAt)

\* C6: a write request whose credential is missing, invalid, expired or names
\* an unknown or deactivated account is answered 401, one whose identity is no
\* admin on an admin route 403; either has changed no row and appended no
\* AuditEntry, and its handler has not run.
C6_RejectedBeforeMutation ==
    \A r \in Slots :
        LET rq == req[r] IN
        /\ (Guarded(rq.route) /\ AuditedRoute(rq.route) /\ Checked(rq)
                /\ CredentialFault(rq) # "")
            => /\ Done(rq) /\ rq.resp.status = 401
               /\ rq.writes = 0 /\ rq.audits = 0 /\ ~rq.handled
        /\ (AdminOnly(rq.route) /\ Checked(rq) /\ CredentialFault(rq) = ""
                /\ rq.pc # "isAdmin" /\ Get(rq.user).role # "admin")
            => /\ Done(rq) /\ rq.resp.status = 403
               /\ rq.writes = 0 /\ rq.audits = 0 /\ ~rq.handled

C6_Witness ==
    \E r, q \in Slots :
        /\ req[r].route = "DELETE /chiropractors/:id" /\ Done(req[r])
        /\ req[r].resp.status = 403 /\ Get(req[r].user).role = "editor"
        /\ req[q].route = "POST /admin/users/:id/toggle-active" /\ Done(req[q])
        /\ req[q].resp.status = 401 /\ req[q].resp.error = "Token expired."
        /\ chiropractors[1].is_active /\ audit_log = <<>>

\* The stages in the order C7 states, and in the order the code runs them.
StatedStageOrder ==
    <<"Authenticated", "Authorized", "Validated", "Sanitized", "Persisted", "Audited">>
CodeStageOrder ==
    <<"Authenticated", "Authorized", "Sanitized", "Validated", "Persisted", "Audited">>

\* No stage of the log comes after a later stage of the order (a handler that
\* writes several rows persists several times).
InOrder(stages, order) ==
    \A i, j \in DOMAIN stages :
        i < j => \/ IndexOf(order, stages[i]) < IndexOf(order, stages[j])
                 \/ stages[i] = "Persisted" /\ stages[j] = "Persisted"

C8_DeactivatedNeverAuthenticates ==
    \A r \in Slots :
        LET rq == req[r] IN
        (Checked(rq) /\ rq.sawActive = Some(FALSE)) =>
            /\ rq.user = None
            /\ rq.route # "optionalAuth" => (Done(rq) /\ rq.resp.status = 401)
            /\ rq.route = "POST /auth/login" =>
                (rq.resp.error = "Account is deactivated" /\ rq.result = None)
            /\ (Guarded(rq.route) /\ CredentialFault(rq) = "deactivated") =>
                (rq.resp.error = "Account is deactivated." /\ ~rq.handled)

C8_Witness ==
    \E r, q \in Slots :
        /\ req[q].route = "POST /admin/users/:id/toggle-active" /\ Done(req[q])
        /\ req[q].resp.status = 200 /\ ~users[2].is_active
        /\ Guarded(req[r].route) /\ req[r].header = Bearer(SecondToken)
        /\ req[r].sawActive = Some(FALSE)
        /\ req[r].resp.error = "Account is deactivated."

\* C9 as stated: every authentication check of an expired credential answers
\* "Token expired." and attaches no identity.
C9_ExpiredAlwaysReported ==
    \A r \in Slots :
        LET rq == req[r] IN
        (rq.route # "POST /auth/login" /\ Checked(rq) /\ CredentialFault(rq) = "expired")
            => /\ Done(rq) /\ rq.resp.status = 401
               /\ rq.resp.error = "Token expired."
               /\ rq.user = None

\* C9, amended: verifyToken answers an expired credential 401 "Token expired.",
\* which is not its answer to an invalid one, and attaches no identity;
\* optionalAuth ignores an expired credential: the request goes on to the
\* handler with no identity and no error.
C9_ExpiredReportedWhenRequired ==
    \A r \in Slots :
        LET rq == req[r] IN
        /\ (Guarded(rq.route) /\ Checked(rq) /\ CredentialFault(rq) = "expired")
            => /\ Done(rq) /\ rq.resp.status = 401
               /\ rq.resp.error = "Token expired."
               /\ rq.user = None /\ ~rq.handled
        /\ (Guarded(rq.route) /\ Checked(rq) /\ CredentialFault(rq) = "invalid")
            => /\ Done(rq) /\ rq.resp.status = 401
               /\ rq.resp.error = "Invalid token."
               /\ rq.user = None /\ ~rq.handled
        /\ (rq.route = "optionalAuth" /\ Checked(rq) /\ CredentialFault(rq) = "expired")
            => /\ rq.user = None /\ rq.handled
               /\ rq.resp \in {NoResp, Reply(200, "handled")}

C9_Witness ==
    \E r, q \in Slots :
        /\ req[r].route = "GET /auth/verify" /\ req[r].header = Bearer(ExpiringToken)
        /\ req[r].resp.error = "Token expired."
        /\ req[q].route = "optionalAuth" /\ req[q].header = Bearer(ExpiringToken)
        /\ Checked(req[q]) /\ CredentialFault(req[q]) = "expired"
        /\ Done(req[q]) /\ req[q].resp.status = 200

\* C10: behind verifyToken a request without a credential is answered 401
\* "Access denied. No token provided." and its handler does not run; behind
\* optionalAuth it goes on to the handler with no identity and no error.
C10_MissingCredential ==
    \A r \in Slots :
        LET rq == req[r] IN
        /\ (Guarded(rq.route) /\ Checked(rq) /\ ~IsSome(rq.header) /\ ~IsSome(rq.cookie))
            => /\ Done(rq) /\ rq.resp.status = 401
               /\ rq.resp.error = "Access denied. No token provided."
               /\ ~rq.handled /\ rq.writes = 0 /\ rq.audits = 0
        /\ (rq.route = "optionalAuth" /\ Checked(rq)
                /\ ~IsSome(rq.header) /\ ~IsSome(rq.cookie))
            => /\ rq.user = None /\ rq.handled
               /\ rq.resp \in {NoResp, Reply(200, "handled")}

C10_Witness ==
    \E r, q \in Slots :
        /\ req[r].route = "GET /auth/verify"
        /\ req[r].header = None /\ req[r].cookie = None
        /\ Done(req[r]) /\ req[r].resp.status = 401
        /\ req[q].route = "optionalAuth"
        /\ req[q].header = None /\ req[q].cookie = None
        /\ Done(req[q]) /\ req[q].resp.status = 200 /\ req[q].user = None


\* The request carries an Authorization: Bearer header.
HasBearer(rq) == IsSome(rq.header) /\ Get(rq.header).scheme = "Bearer"

\* C11: of a request with a Bearer header and a token cookie the header's
\* credential is the one verified: an identity attached is the header's subject,
\* and a header that does not verify is not made good by the cookie; the cookie
\* decides only when there is no Bearer header.
C11_HeaderBeforeCookie ==
    \A r \in Slots :
        LET rq == req[r] IN
        ((Guarded(rq.route) \/ rq.route = "optionalAuth") /\ Checked(rq)) =>
            /\ (HasBearer(rq) /\ IsSome(rq.user))
                => Get(rq.user).id = Get(rq.header).token.userId
            /\ (HasBearer(rq) /\ ~Get(rq.header).token.sig) => rq.user = None
            /\ (~HasBearer(rq) /\ IsSome(rq.user))
                => (IsSome(rq.cookie) /\ Get(rq.user).id = Get(rq.cookie).userId)
            /\ (~HasBearer(rq) /\ ~IsSome(rq.cookie)) => rq.user = None

C11_Witness ==
    \E r, q \in Slots :
        /\ req[r].header = Bearer(AdminToken) /\ req[r].cookie = Some(EditorToken)
        /\ req[r].route = "DELETE /chiropractors/:id" /\ Done(req[r])
        /\ req[r].resp.status = 200 /\ Get(req[r].user).id = 1
        /\ req[q].header = Basic(AdminToken) /\ req[q].cookie = Some(SecondToken)
        /\ req[q].route = "GET /auth/verify" /\ Done(req[q])
        /\ req[q].resp.status = 200 /\ Get(req[q].user).id = 2


\* The public read routes of listings.
PublicListingRoutes ==
    {"GET /chiropractors", "GET /chiropractors/state/:state",
     "GET /chiropractors/states", "GET /chiropractors/:id",
     "GET /chiropractors/:id/related", "GET /seo/chiropractor/:id",
     "GET /seo/sitemap-data", "GET /sitemap.xml"}

\* The listings restored since their latest soft delete and not updated since.
RestoredListings ==
    {id \in DOMAIN tally.deleted :
        id \in DOMAIN chiropractors /\ chiropractors[id].is_active}

\* C12 as stated: a listing restored after a soft delete has every field as it
\* was before the soft delete, the active flag excepted.
C12_RestoreKeepsEveryField ==
    \A id \in RestoredListings :
        chiropractors[id] = [tally.deleted[id] EXCEPT !.is_active = TRUE]

\* The listing as it was before its soft delete, but for the active flag and the
\* time of the last update, which the table's trigger sets on every UPDATE.
RestoredAsBefore ==
    \A id \in RestoredListings :
        chiropractors[id] = [tally.deleted[id] EXCEPT
                                !.is_active = TRUE,
                                !.updated_at = chiropractors[id].updated_at]

\* The steps of C12: a soft delete leaves the row stored with its active flag
\* false; a statement of the admin list matches every stored row, active or not;
\* the public read by id answers 200 with the listing exactly when its row is
\* active; no public read matches a row that is not active.
DirectoryStep ==
    \A r \in Slots :
        LET rq == req[r] IN
        /\ (rq.pc = "chiroSoftDelete" /\ req'[r] # rq)
            => /\ DOMAIN chiropractors' = DOMAIN chiropractors
               /\ rq.id \in DOMAIN chiropractors => ~chiropractors'[rq.id].is_active
        /\ (rq.pc \in {"adminListCount", "adminListSelect"} /\ req'[r] # rq)
            => Listings \subseteq req'[r].read
        /\ (rq.pc = "chiroById" /\ req'[r] # rq)
            => IF rq.id \in DOMAIN chiropractors /\ chiropractors[rq.id].is_active
               THEN /\ req'[r].resp.status = 200
                    /\ Get(req'[r].result).chiropractor
                            = ChiroColumns(chiropractors[rq.id])
               ELSE req'[r].resp.status = 404
        /\ req'[r].route \in PublicListingRoutes
            => \A row \in req'[r].read : row.is_active

\* C12, amended: after a soft delete a Listing is still returned by the admin
\* list but by no public active-only query; after a subsequent restore it is
\* publicly visible again and every field equals its value before the soft
\* delete, the active flag and the update timestamp excepted.
C12_SoftDeleteThenRestore == [][DirectoryStep /\ RestoredAsBefore']_vars

\* The seeded listing soft-deleted, restored at a later time, then read through
\* the public route by id.
C12_Witness ==
    \E r \in Slots :
        /\ 1 \in RestoredListings
        /\ chiropractors[1].updated_at # tally.deleted[1].updated_at
        /\ req[r].route = "GET /chiropractors/:id" /\ req[r].id = 1
        /\ Done(req[r]) /\ req[r].resp.status = 200
        /\ Get(req[r].result).chiropractor = ChiroColumns(tally.deleted[1])


\* C13: every row a statement of a public read path of listings (list,
\* by-state, state counts, by-id, related, SEO data, sitemap data, sitemap) has
\* matched, and so returned or counted, had its active flag true when the
\* statement ran.
C13_PublicReadsOnlyActive ==
    \A r \in Slots :
        req[r].route \in PublicListingRoutes
            => \A row \in req[r].read : row.is_active

\* A public list answered after the seeded listing was soft-deleted: it holds
\* no row and counts none, while the row is still stored.
C13_Witness ==
    \E r \in Slots :
        /\ req[r].route = "GET /chiropractors" /\ req[r].key = <<>>
        /\ Done(req[r]) /\ req[r].resp.status = 200
        /\ Get(req[r].result).total = 0
        /\ Get(req[r].result).chiropractors = {}
        /\ 1 \in DOMAIN chiropractors /\ ~chiropractors[1].is_active


\* The columns of a stored listing.
ListingColumns == DOMAIN SeedListing

\* The steps of C14: the statement of the standard delete keeps every row and
\* changes, of the row it names, the active flag (to false) and the update
\* timestamp only; a row leaves the table only by the DELETE statement of a
\* permanent-delete request.
RemovalStep ==
    /\ \A r \in Slots :
        LET rq == req[r] IN
        (rq.route = "DELETE /chiropractors/:id" /\ req'[r] # rq)
            => /\ DOMAIN chiropractors' = DOMAIN chiropractors
               /\ \A id \in DOMAIN chiropractors :
                    chiropractors'[id] =
                        IF rq.pc = "chiroSoftDelete" /\ id = rq.id
                        THEN [chiropractors[id] EXCEPT
                                !.is_active = FALSE,
                                !.updated_at = chiropractors'[id].updated_at]
                        ELSE chiropractors[id]
    /\ DOMAIN chiropractors \subseteq DOMAIN chiropractors'
        \/ \E r \in Slots :
            /\ req[r].route = "DELETE /admin/chiropractors/:id/permanent"
            /\ req[r].pc = "chiroPermanentDelete" /\ req'[r] # req[r]
            /\ DOMAIN chiropractors' = DOMAIN chiropractors \ {req[r].id}

\* A permanent-delete request answered with success has left an AuditEntry of
\* that listing whose old_values is the row with every column, as the request
\* read it before its DELETE; the row is gone.
PermanentDeleteLogged ==
    \A r \in Slots :
        LET rq == req[r] IN
        (rq.route = "DELETE /admin/chiropractors/:id/permanent"
            /\ Done(rq) /\ Success(rq.resp))
            => /\ rq.id \notin DOMAIN chiropractors
               /\ IsSome(rq.current)
               /\ DOMAIN Get(rq.current) = ListingColumns
               /\ Get(rq.current).id = rq.id
               /\ \E i \in DOMAIN audit_log :
                    /\ audit_log[i].action = "permanent_delete"
                    /\ audit_log[i].entity_type = "chiropractor"
                    /\ audit_log[i].entity_id = Some(rq.id)
                    /\ audit_log[i].old_values = rq.current

CoreKeys == {site_name, site_description, contact_email}

\* The steps of C15: no step of a delete request for a core key changes the
\* settings or the audit log, and no step at all takes a core key out of the
\* settings.
CoreStep ==
    /\ \A r \in Slots :
        (req[r].route = "DELETE /settings/:key" /\ req[r].key \in CoreKeys
            /\ req'[r] # req[r])
            => /\ site_settings' = site_settings
               /\ audit_log' = audit_log
    /\ \A k \in CoreKeys :
        k \in DOMAIN site_settings => k \in DOMAIN site_settings'

\* A delete request for a core key that has been answered was rejected: 400
\* by the handler, 401 or 403 before it; it changed no row and logged nothing.
CoreDeleteRejected ==
    \A r \in Slots :
        LET rq == req[r] IN
        (rq.route = "DELETE /settings/:key" /\ rq.key \in CoreKeys /\ Done(rq))
            => /\ rq.resp.status = (IF rq.handled THEN 400
                                    ELSE IF rq.user = None THEN 401 ELSE 403)
               /\ rq.writes = 0 /\ rq.audits = 0

\* C15: the core settings site_name, site_description and contact_email can
\* never be deleted: a delete request for a core key is rejected with the
\* settings and the audit log unchanged, so a core setting that is stored stays
\* stored in every later state.
C15_CoreSettingsStay == [][CoreStep /\ CoreDeleteRejected']_vars

\* An admin's delete of site_name answered 400 by the handler, site_name still
\* stored, next to an admin's delete of footer_text that removed the row.
C15_Witness ==
    \E r, q \in Slots :
        /\ req[r].route = "DELETE /settings/:key" /\ req[r].key = site_name
        /\ Done(req[r]) /\ req[r].handled /\ req[r].resp.status = 400
        /\ req[r].resp.error = "Cannot delete core settings"
        /\ site_name \in DOMAIN site_settings
        /\ req[q].route = "DELETE /settings/:key" /\ req[q].key = footer_text
        /\ Done(req[q]) /\ req[q].resp.status = 200
        /\ footer_text \notin DOMAIN site_settings

\* The keys the handler of GET /api/settings calls public.
StatedPublicKeys ==
    {site_name, site_description, site_keywords, footer_text,
     <<"p","r","i","m","a","r","y","_","c","o","l","o","r">>,
     <<"s","o","c","i","a","l","_","f","a","c","e","b","o","o","k">>,
     <<"s","o","c","i","a","l","_","t","w","i","t","t","e","r">>,
     <<"s","o","c","i","a","l","_","l","i","n","k","e","d","i","n">>}

\* The rows of settings a request has read on a route that asks for no admin
\* identity belong to keys.
PublicReadsWithin(keys) ==
    \A r \in Slots :
        ~AdminOnly(req[r].route)
            => \A row \in req[r].settingsRead : row.setting_key \in keys

\* C16 as stated: on a route that requires no admin identity only values of the
\* fixed public subset of setting keys are read.
C16_OnlyPublicSubset == PublicReadsWithin(StatedPublicKeys)

\* C16, amended: on a route that requires no admin identity only values of the
\* fixed public subset of setting keys and of the key site_url, which the SEO
\* routes put into canonical URLs, are read; the value of any other key
\* (contact_email, google_analytics_id, any other admin-created key) is read
\* only on a route that requires an admin identity, and only by an admin.
C16_PublicSubsetAndSiteUrl ==
    /\ PublicReadsWithin(StatedPublicKeys \cup {site_url})
    /\ \A r \in Slots :
        (AdminOnly(req[r].route) /\ req[r].settingsRead # {})
            => (IsSome(req[r].user) /\ Get(req[r].user).role = "admin")

\* An admin has created site_url and a public SEO read has put its value into
\* the canonical URL, while contact_email is stored and was not read.
C16_Witness ==
    \E r \in Slots :
        /\ req[r].route = "GET /seo/page/:page" /\ Done(req[r])
        /\ req[r].header = None /\ req[r].cookie = None
        /\ site_url \in DOMAIN site_settings
        /\ Get(req[r].result).seo.canonical[1] = site_settings[site_url].setting_value
        /\ contact_email \in DOMAIN site_settings
        /\ \A row \in req[r].settingsRead : row.setting_key # contact_email


\* The record a successful write request has mutated: its entity type and its
\* identifier.
Target(rq) ==
    CASE rq.route = "POST /chiropractors" -> <<"chiropractor", Get(rq.result).id>>
      [] rq.route \in {"PUT /chiropractors/:id", "DELETE /chiropractors/:id",
                       "POST /admin/chiropractors/:id/restore",
                       "DELETE /admin/chiropractors/:id/permanent"}
            -> <<"chiropractor", rq.id>>
      [] rq.route = "POST /blog" -> <<"blog_post", Get(rq.result).id>>
      [] rq.route \in {"PUT /blog/:id", "DELETE /blog/:id",
                       "POST /admin/blog-posts/:id/toggle-publish"}
            -> <<"blog_post", rq.id>>
      [] rq.route = "POST /settings" -> <<"setting", Get(rq.result).id>>
      [] rq.route \in {"PUT /settings/:key", "DELETE /settings/:key"}
            -> <<"setting", Get(rq.current).id>>
      [] rq.route = "POST /admin/users" -> <<"user", Get(rq.result).id>>
      [] rq.route = "POST /admin/users/:id/toggle-active" -> <<"user", rq.id>>
      [] rq.route = "POST /auth/change-password" -> <<"user", Get(rq.user).id>>

\* The routes that create, update or delete one Listing, Post, Setting or
\* Account.
TargetedRoutes ==
    {"POST /chiropractors", "PUT /chiropractors/:id", "DELETE /chiropractors/:id",
     "POST /admin/chiropractors/:id/restore",
     "DELETE /admin/chiropractors/:id/permanent",
     "POST /blog", "PUT /blog/:id", "DELETE /blog/:id",
     "POST /admin/blog-posts/:id/toggle-publish",
     "POST /settings", "PUT /settings/:key", "DELETE /settings/:key",
     "POST /admin/users", "POST /admin/users/:id/toggle-active",
     "POST /auth/change-password"}

\* The successful mutating requests on routes have each left an AuditEntry with
\* the entity type and the identifier of the record they mutated.
AuditNamesRecord(routes) ==
    \A r \in Slots :
        LET rq == req[r] IN
        (rq.route \in routes /\ Done(rq) /\ Success(rq.resp) /\ rq.writes > 0)
            => \E i \in DOMAIN audit_log :
                /\ audit_log[i].entity_id = Some(Target(rq)[2])
                /\ audit_log[i].entity_type = Target(rq)[1]

\* C17: the AuditEntry produced by every successful create, update or delete
\* (soft or permanent) on a Listing, Post, Setting or Account carries the
\* entityType and the entityId of the record that was mutated.
C17_AuditNamesRecord == AuditNamesRecord(TargetedRoutes)
\* The write of an update request: of a listing (update, soft delete) or of a
\* setting, on a row that is stored.
WritesRow(rq) ==
    \/ /\ rq.pc \in {"chiroUpdate", "chiroSoftDelete"}
       /\ rq.id \in DOMAIN chiropractors
    \/ /\ rq.pc = "settingPutUpdate"
       /\ rq.key \in DOMAIN site_settings

\* At the write of an update request the snapshot it holds for old_values is
\* the stored state the write replaces, and the snapshot it takes for
\* new_values the stored state the write leaves.
SnapshotsAtWrite ==
    \A r \in Slots :
        LET rq == req[r] IN
        (WritesRow(rq) /\ req'[r] # rq)
            => IF rq.pc = "settingPutUpdate"
               THEN /\ Get(rq.current).setting_value
                            = site_settings[rq.key].setting_value
                    /\ rq.body.value = site_settings'[rq.key].setting_value
               ELSE /\ rq.current = Some(chiropractors[rq.id])
                    /\ rq.pc = "chiroUpdate"
                        => req'[r].result = Some(chiropractors'[rq.id])

\* C18: for every successful update the AuditEntry's old snapshot equals the
\* stored state immediately before that request's write and its new snapshot
\* the stored state immediately after it, also when two requests update the
\* same entity concurrently.
C18_SnapshotsAroundWrite == [][SnapshotsAtWrite]_vars

\* The answer of the handlers' catch to any error of a statement.
GenericFailure(resp) == resp.status = 500

\* C19: a request whose INSERT or UPDATE violated a unique constraint (the
\* suffixed slug taken a second time, two concurrent creates of one slug, two
\* concurrent creates of one email) has ended, without another attempt, with a
\* Conflict answer (409) and not with the answer of a generic storage failure.
C19_UniqueViolationIsConflict ==
    \A r \in Slots :
        LET rq == req[r] IN
        rq.failed = "unique"
            => /\ Done(rq)
               /\ rq.resp.status = 409
               /\ ~GenericFailure(rq.resp)

\* The character of the title lower-cases into [a-z0-9].
Alphanumeric(c) == ToLowerChar(c) \in Range(LowerSeq) \cup Range(DigitSeq)

\* What the title's character at i contributes to the slug as C20 states it: an
\* alphanumeric character its lower case; the first character of a run of
\* others one hyphen when the run has alphanumeric characters on both sides;
\* any other character nothing.
Contribution(title, i) ==
    IF Alphanumeric(title[i]) THEN <<ToLowerChar(title[i])>>
    ELSE IF /\ i > 1 /\ Alphanumeric(title[i - 1])
            /\ \E j \in (i + 1)..Len(title) : Alphanumeric(title[j])
    THEN <<"-">>
    ELSE <<>>

RECURSIVE StatedSlug(_, _)
StatedSlug(title, i) ==
    IF i > Len(title) THEN <<>>
    ELSE Contribution(title, i) \o StatedSlug(title, i + 1)

\* ^[a-z0-9]+(-[a-z0-9]+)*$
WellFormedSlug(s) ==
    /\ s # <<>>
    /\ \A i \in DOMAIN s : s[i] = "-" \/ IsSlugChar(s[i])
    /\ s[1] # "-" /\ s[Len(s)] # "-"
    /\ \A i \in 1..(Len(s) - 1) : ~(s[i] = "-" /\ s[i + 1] = "-")

\* C20: createSlug(title) is the lower-cased title with each maximal run of
\* characters outside [a-z0-9] replaced by a single hyphen and the leading and
\* trailing hyphens stripped; the result matches ^[a-z0-9]+(-[a-z0-9]+)*$ or
\* is empty, and it is empty only if the title has no alphanumeric character.
C20_SlugOfTitle ==
    \A r \in Slots :
        LET rq == req[r] IN
        (rq.route = "createSlug" /\ rq.pc # "createSlug")
            => /\ rq.slug = StatedSlug(rq.body.title, 1)
               /\ rq.slug = <<>> \/ WellFormedSlug(rq.slug)
               /\ rq.slug = <<>>
                    => \A i \in DOMAIN rq.body.title : ~Alphanumeric(rq.body.title[i])

\* A title with a leading blank, a capital, a run of three characters outside
\* [a-z0-9] one of which is a hyphen, and a digit.
C20_Witness ==
    \E r \in Slots :
        /\ req[r].route = "createSlug" /\ req[r].pc # "createSlug"
        /\ req[r].body.title = <<" ", "A", "-", "_", "7">>
        /\ req[r].slug = <<"a", "-", "7">>

\* C21: sanitize is idempotent on every string input,
\* sanitize(sanitize(x)) = sanitize(x), and returns every input that is no
\* string unchanged.
C21_SanitizeIdempotent ==
    \A r \in Slots :
        LET rq == req[r] IN
        /\ (rq.route = "sanitizeInput" /\ IsSome(rq.current)
                /\ rq.body.value.type # "string")
            => Get(rq.current) = rq.body.value
        /\ (rq.route = "sanitizeInput" /\ IsSome(rq.result))
            => rq.result = rq.current

ToggleActiveRoute == "POST /admin/users/:id/toggle-active"

\* The toggle-active requests whose UPDATE of account u runs in this step.
ToggleActiveWriters(u) ==
    {r \in Slots :
        /\ req[r].route = ToggleActiveRoute /\ req[r].id = u
        /\ req[r].pc = "toggleActiveUpdate" /\ req'[r].pc # req[r].pc}

\* One step of the server: the UPDATE of a toggle-active request negates the
\* flag of its account, the row it gets back shows the flag it stored, and no
\* other step changes a flag; the request keeps that row until its INSERT INTO
\* audit_log, whose action is activate_user when the row's flag is true and
\* deactivate_user when it is false.
ToggleActiveStep ==
    /\ \A u \in DOMAIN users :
        /\ u \in DOMAIN users'
        /\ users'[u].is_active =
                IF ToggleActiveWriters(u) # {} THEN ~users[u].is_active
                ELSE users[u].is_active
        /\ \A r \in ToggleActiveWriters(u) :
                /\ IsSome(req'[r].result)
                /\ Get(req'[r].result).is_active = users'[u].is_active
                /\ req'[r].writes = req[r].writes + 1
    /\ \A r \in Slots :
        (req[r].route = ToggleActiveRoute /\ req[r].pc = "toggleActiveAudit")
            => /\ req'[r].result = req[r].result
               /\ req'[r].writes = 1
               /\ (req'[r].pc = "done" /\ Success(req'[r].resp))
                    => /\ Len(audit_log') = Len(audit_log) + 1
                       /\ audit_log'[Len(audit_log')].entity_id = Some(req[r].id)
                       /\ audit_log'[Len(audit_log')].entity_type = "user"
                       /\ audit_log'[Len(audit_log')].action =
                            IF Get(req[r].result).is_active THEN "activate_user"
                            ELSE "deactivate_user"

\* C22: toggling an account's active flag is one atomic read-modify-write: each
\* toggle-active request that completes flips the flag exactly once, so k of
\* them, run concurrently, flip it k times, and the action tag of each request's
\* AuditEntry (activate_user / deactivate_user) is the flag value its own write
\* produced.
C22_ToggleActiveAtomic == [][ToggleActiveStep]_vars

\* Two toggle-active requests on account 2 run concurrently: the second has
\* finished between the first's UPDATE and its INSERT INTO audit_log, and the
\* flag, flipped twice, is true again.
C22_Witness ==
    /\ req[1].route = ToggleActiveRoute /\ req[1].id = 2
    /\ req[1].pc = "toggleActiveAudit"
    /\ Get(req[1].result).is_active = FALSE
    /\ req[2].route = ToggleActiveRoute /\ req[2].id = 2
    /\ req[2].pc = "done" /\ Success(req[2].resp)
    /\ Get(req[2].result).is_active = TRUE
    /\ users[2].is_active = TRUE
    /\ audit_log # <<>> /\ audit_log[Len(audit_log)].action = "activate_user"

\* Two AuditEntries are the same entry.
SameEntry(a, b) ==
    /\ a.action = b.action /\ a.user_id = b.user_id /\ a.entity_id = b.entity_id
    /\ a = b

\* One step of the server leaves every AuditEntry of the log in its place and
\* unchanged; it may append entries after them.
AuditLogStep ==
    /\ Len(audit_log') >= Len(audit_log)
    /\ \A i \in 1..Len(audit_log) : SameEntry(audit_log'[i], audit_log[i])

\* C23: an AuditEntry once appended is never updated or deleted: the audit log
\* of every state contains, unchanged and in their places, the entries of every
\* earlier state.
C23_AuditLogAppendOnly == [][AuditLogStep]_vars

\* An audit-log request that counted no entry has answered with the entry a
\* concurrent request appended since, and the log still holds that entry.
C23_Witness ==
    \E r \in Slots :
        /\ req[r].route = "GET /admin/audit-log" /\ req[r].pc = "done"
        /\ Success(req[r].resp)
        /\ Len(audit_log) = 1
        /\ Get(req[r].result).total = 0
        /\ Len(Get(req[r].result).logs) = 1
        /\ Get(req[r].result).logs[1] = audit_log[1]

\* The messages of the rules declared for a field of a listing, in the order of
\* their declaration.
DeclaredRules(field) ==
    CASE field = "name" ->
            <<"Name is required", "Name must be between 2 and 255 characters">>
      [] field = "state" ->
            <<"State is required", "State must be less than 100 characters">>
      [] field = "phone" ->
            <<"Phone is required", "Invalid phone number format",
              "Phone must be less than 50 characters">>

\* The value t, trimmed, fails the rule of that message.
RuleFails(message, t) ==
    CASE message \in {"Name is required", "State is required", "Phone is required"} ->
            Len(t) = 0
      [] message = "Name must be between 2 and 255 characters" ->
            Len(t) < 2 \/ Len(t) > 255
      [] message = "State must be less than 100 characters" -> Len(t) > 100
      [] message = "Phone must be less than 50 characters" -> Len(t) > 50
      [] message = "Invalid phone number format" ->
            \/ Len(t) = 0
            \/ \E i \in DOMAIN t :
                t[i] \notin {"0", "1", "2", "3", "4", "5", "6", "7", "8", "9",
                             " ", "\t", "\n", "-", "(", ")", "+", "."}

\* The violations a field of a listing payload is to be reported with.
FailingRules(field, value) ==
    LET t      == TrimLeft(TrimRight(value))
        failed == SelectSeq(DeclaredRules(field), LAMBDA m : RuleFails(m, t))
    IN  [i \in DOMAIN failed |-> [field |-> field, message |-> failed[i]]]

\* The violations of a field in the details of a response.
DetailsOf(field, resp) == SelectSeq(resp.details, LAMBDA d : d.field = field)

\* C24: when a field violates several declared rules, the ValidationFailed
\* result holds one {field, message} for every failing rule of that field, in
\* the order the rules are declared, not only the first.
C24_EveryFailingRuleReported ==
    \A r \in Slots :
        LET rq == req[r] IN
        (ListingWrite(rq) /\ Done(rq) /\ rq.resp.error = "Validation failed")
            => \A f \in {"name", "state", "phone"} :
                    DetailsOf(f, rq.resp) = FailingRules(f, rq.payload[f])

\* A listing whose phone is a single blank breaks two rules of phone, and the
\* response names both, in their order.
C24_Witness ==
    \E r \in Slots :
        /\ req[r].route = "POST /chiropractors"
        /\ req[r].payload.phone = <<" ">>
        /\ Done(req[r]) /\ req[r].resp.status = 400
        /\ Len(FailingRules("phone", req[r].payload.phone)) = 2
        /\ DetailsOf("phone", req[r].resp) =
                <<[field |-> "phone", message |-> "Phone is required"],
                  [field |-> "phone", message |-> "Invalid phone number format"]>>

\* The slugs createSlug makes of a title: the direct one, and the suffixed ones
\* of the clock's values.
SlugsOfTitle(title) ==
    {createSlug(title, <<>>)} \cup {createSlug(title, toString36(t)) : t \in 0..MaxClock}

\* One step of a post write.  The INSERT of a create stores a slug made of the
\* request's title.  The lookup of an update, made when the title differs from
\* the row read, settles on the direct slug of the new title unless a row other
\* than the one being updated holds it, and then on the suffixed slug.  The
\* UPDATE stores the slug of the row read when the title is that row's title,
\* and the slug the lookup settled on otherwise.
PostSlugStep ==
    \A r \in Slots :
        LET rq     == req[r]
            direct == createSlug(rq.body.title, <<>>)
        IN  /\ (rq.route = "POST /blog" /\ rq.pc = "postInsert"
                    /\ req'[r].writes = rq.writes + 1)
                => /\ serial.blog_posts \in DOMAIN blog_posts'
                   /\ blog_posts'[serial.blog_posts].title = rq.body.title
                   /\ blog_posts'[serial.blog_posts].slug \in SlugsOfTitle(rq.body.title)
            /\ (rq.route = "PUT /blog/:id" /\ rq.pc = "postUpdateSelect"
                    /\ req'[r].pc = "postUpdate")
                => req'[r].body.title = Get(req'[r].current).title
            /\ (rq.route = "PUT /blog/:id" /\ rq.pc = "postUpdateSlug"
                    /\ req'[r].pc # rq.pc)
                => /\ rq.body.title # Get(rq.current).title
                   /\ req'[r].slug =
                        IF \E id \in DOMAIN blog_posts :
                                id # rq.id /\ blog_posts[id].slug = direct
                        THEN createSlug(rq.body.title, toString36(now))
                        ELSE direct
            /\ (rq.route = "PUT /blog/:id" /\ rq.pc = "postUpdate"
                    /\ req'[r].writes = rq.writes + 1)
                => /\ blog_posts'[rq.id].title = rq.body.title
                   /\ blog_posts'[rq.id].slug =
                        IF rq.body.title = Get(rq.current).title
                        THEN Get(rq.current).slug ELSE rq.slug
                   /\ blog_posts'[rq.id].slug \in
                        IF rq.body.title = Get(rq.current).title
                        THEN {Get(rq.current).slug} ELSE SlugsOfTitle(rq.body.title)

\* C25: a post's slug is computed from its title at creation; an update whose
\* title is the title of the row it read leaves the slug as read, and an update
\* with another title recomputes the slug from the new title, with a collision
\* check that ignores the post being updated.
C25_SlugFollowsTitle == [][PostSlugStep]_vars

\* The seeded post "Spine" (slug spine) was updated to the title "spine!", whose
\* direct slug is spine as well: the check ignored the post itself and the slug
\* is the direct one.
C25_Witness ==
    \E r \in Slots :
        /\ req[r].route = "PUT /blog/:id" /\ req[r].id = 1
        /\ req[r].body.title = <<"s", "p", "i", "n", "e", "!">>
        /\ Done(req[r]) /\ Success(req[r].resp)
        /\ Get(req[r].current).title = SeedTitle
        /\ 1 \in DOMAIN blog_posts
        /\ blog_posts[1].title = <<"s", "p", "i", "n", "e", "!">>
        /\ blog_posts[1].slug = <<"s", "p", "i", "n", "e">>

\* The routes that update, soft-delete, restore, permanently delete or toggle
\* an entity they are addressed to.
AddressingRoutes ==
    {"PUT /chiropractors/:id", "DELETE /chiropractors/:id",
     "POST /admin/chiropractors/:id/restore",
     "DELETE /admin/chiropractors/:id/permanent",
     "PUT /blog/:id", "DELETE /blog/:id",
     "POST /admin/blog-posts/:id/toggle-publish",
     "PUT /settings/:key", "POST /settings/bulk", "DELETE /settings/:key",
     "POST /admin/users/:id/toggle-active"}

\* The request addresses entities, and none of them exists.
AddressedAbsent(rq) ==
    CASE rq.route \in {"PUT /chiropractors/:id", "DELETE /chiropractors/:id",
                       "POST /admin/chiropractors/:id/restore",
                       "DELETE /admin/chiropractors/:id/permanent"}
            -> rq.id \notin DOMAIN chiropractors
      [] rq.route \in {"PUT /blog/:id", "DELETE /blog/:id",
                       "POST /admin/blog-posts/:id/toggle-publish"}
            -> rq.id \notin DOMAIN blog_posts
      [] rq.route \in {"PUT /settings/:key", "DELETE /settings/:key"}
            -> rq.key \notin DOMAIN site_settings
      [] rq.route = "POST /settings/bulk"
            -> /\ IsSome(rq.body.settings)
               /\ Get(rq.body.settings) # <<>>
               /\ \A i \in DOMAIN Get(rq.body.settings) :
                    Get(rq.body.settings)[i].key \notin DOMAIN site_settings
      [] rq.route = "POST /admin/users/:id/toggle-active"
            -> rq.id \notin DOMAIN users
      [] OTHER -> FALSE

\* A request on one of the routes whose handler has run to its end without
\* changing a row, and whose entity does not exist, was answered 404 and has
\* appended no AuditEntry.
AbsentEntityNotFound(routes) ==
    \A r \in Slots :
        LET rq == req[r] IN
        (rq.route \in routes /\ Done(rq) /\ rq.handled /\ rq.resp.status # 400
            /\ rq.writes = 0 /\ AddressedAbsent(rq))
            => rq.resp.status = 404 /\ rq.audits = 0

\* C26: an update, soft delete, restore, permanent delete or toggle addressed
\* to an entity that does not exist returns NotFound, changes no entity and
\* appends no AuditEntry.
C26_AbsentEntityNotFound == AbsentEntityNotFound(AddressingRoutes)
\* C27: because an account cannot toggle its own active flag, at least one
\* active admin account exists in every reachable state, also when two admins
\* issue toggle-active requests against each other concurrently.
C27_ActiveAdminRemains ==
    \E u \in DOMAIN users : users[u].role = "admin" /\ users[u].is_active

\* C28: in every reachable state a post is published if and only if its
\* published_at timestamp is set, whatever sequence of create, update (with
\* is_published true, false or omitted) and toggle-publish requests produced it.
C28_PublishedIffTimestamp ==
    \A id \in DOMAIN blog_posts :
        blog_posts[id].is_published <=> IsSome(blog_posts[id].published_at)

\* C29: every slug stored for a post by create or update, the direct slug or
\* the suffixed slug used on collision, is non-empty and matches
\* ^[a-z0-9]+(-[a-z0-9]+)*$ (it never starts with a hyphen), for every title
\* that passes validation.
C29_StoredSlugWellFormed ==
    \A id \in DOMAIN blog_posts : WellFormedSlug(blog_posts[id].slug)

TogglePublishRoute == "POST /admin/blog-posts/:id/toggle-publish"

\* One step of the server: the UPDATE of a toggle-publish request stores the
\* negation of the flag the post had just before it, and the AuditEntry of the
\* request names that transition: old_values the flag before its write,
\* new_values the flag its write stored, and publish / unpublish accordingly.
TogglePublishStep ==
    \A r \in Slots :
        LET rq == req[r] IN
        /\ (rq.route = TogglePublishRoute /\ rq.pc = "togglePublishUpdate"
                /\ req'[r].writes = rq.writes + 1)
            => /\ blog_posts'[rq.id].is_published = ~blog_posts[rq.id].is_published
               /\ Get(rq.current).is_published = blog_posts[rq.id].is_published
               /\ Get(req'[r].result).is_published = blog_posts'[rq.id].is_published
        /\ (rq.route = TogglePublishRoute /\ rq.pc = "togglePublishAudit"
                /\ req'[r].pc = "done" /\ Success(req'[r].resp) /\ IsSome(rq.result))
            => LET entry == audit_log'[Len(audit_log')] IN
               /\ Len(audit_log') = Len(audit_log) + 1
               /\ entry.entity_id = Some(rq.id)
               /\ entry.new_values = Some([is_published |-> Get(rq.result).is_published])
               /\ entry.old_values = Some([is_published |-> Get(rq.current).is_published])
               /\ entry.action = IF Get(rq.result).is_published THEN "publish"
                                 ELSE "unpublish"

\* C30: k toggle-publish requests on the same post that all complete leave its
\* published flag flipped exactly k times, and each request's AuditEntry
\* (publish / unpublish, old and new is_published) describes the transition its
\* own write performed, also when the requests interleave.
C30_TogglePublishAtomic == [][TogglePublishStep]_vars


====
